---- MODULE Spec2Model ----
(***************************************************************************)
(* jira-assistant: the duplicate-aware creation workflows                  *)
(* (tools/create_new_ticket.py, tools/create_new_epic.py,                  *)
(* tools/create_new_ticket_advanced.py and the create_new_ticket branch of *)
(* server.py's call_tool), the similarity search they share, the           *)
(* configuration store they read, and the remote issue store they call;    *)
(* the configuration file as two server processes share it (SpecConfig);   *)
(* and the transition, details, update, comment, sprint and listing tools  *)
(* with the responses of the remote store to each request (SpecTools).     *)
(*                                                                         *)
(* Text is modelled as a sequence of one-character strings, so that        *)
(* str.rsplit and str.upper are computed and not assumed.  Python's None   *)
(* and "" are both the empty sequence where the code tests truthiness.     *)
(* A handler runs atomically between two awaits of a remote response.      *)
(* Arguments that the handlers only copy into the creation payload         *)
(* (issue_type, priority, labels, assignee) are left out, and so are the   *)
(* priority, labels, sprint and epic_key fields of update_ticket_details.  *)
(* The text a tool returns is the sequence of the literals and values it   *)
(* is made of, in the order of the text.                                   *)
(***************************************************************************)
EXTENDS Integers, Sequences, FiniteSets, TLC

VARIABLES
    PROJECT_KEYS,       \* config.PROJECT_KEYS, fixed at process start
    DEFAULT_PROJECT,    \* the name create_new_ticket_advanced imports
    runtime_config,     \* config._runtime_config
    config_file,        \* content of config.json
    peer,               \* a second server process that shares config.json
    issues,             \* the remote issue store, oldest first
    inv                 \* the tool invocations, by slot

vars == <<PROJECT_KEYS, DEFAULT_PROJECT, runtime_config, config_file, peer,
          issues, inv>>

----------------------------------------------------------------------------
(* Bounds *)

MaxExisting == 5

(* Process constants *)

DEFAULT_PRIORITY == <<"M","e","d">>
DEFAULT_ISSUE_TYPE == <<"T","a","s","k">>
SPRINT_FIELD == "customfield_10020"
JIRA_HOST == <<"h">>
SearchCap == 5
WarnCap == 3
ListCap == 50
SimilarCap == 10
PreviewCap == 200
ACTIONABLE_STATUS == "To Do"

P == <<"P">>
Q == <<"Q">>
None == <<>>

Min(a, b) == IF a < b THEN a ELSE b

----------------------------------------------------------------------------
(* Text helpers *)

\* index of the last "-" of s, 0 when there is none
LastDash(s) ==
    LET idx == {k \in 1..Len(s) : s[k] = "-"}
    IN  IF idx = {} THEN 0 ELSE CHOOSE k \in idx : \A m \in idx : m <= k

\* Python: s.rsplit("-", 1)[0]
rsplit_head(s) ==
    IF LastDash(s) = 0 THEN s ELSE SubSeq(s, 1, LastDash(s) - 1)

\* Python: str(n) for an integer n
RECURSIVE NatStr(_)
NatStr(n) ==
    LET d == <<"0","1","2","3","4","5","6","7","8","9">>
    IN  IF n < 10 THEN <<d[n + 1]>> ELSE NatStr(n \div 10) \o <<d[(n % 10) + 1]>>

str(n) == IF n < 0 THEN <<"-">> \o NatStr(0 - n) ELSE NatStr(n)

\* Python: int(s) for a string that str() produced
RECURSIVE NatVal(_)
NatVal(s) ==
    LET v(c) == CHOOSE k \in 0..9 : NatStr(k) = <<c>>
    IN  IF s = <<>> THEN 0
        ELSE 10 * NatVal(SubSeq(s, 1, Len(s) - 1)) + v(s[Len(s)])

int(s) == IF s # <<>> /\ s[1] = "-" THEN 0 - NatVal(Tail(s)) ELSE NatVal(s)

----------------------------------------------------------------------------
(* config.py *)

get_default_project == runtime_config.default_project

get_default_sprint_id == runtime_config.default_sprint_id

\* _load_config(): whether an exception leaves it.  The content of
\* config.json has one of these forms: "object", a JSON object; "invalid",
\* text that is not JSON, a truncated write included; "nonobject", JSON that
\* is not an object (null, a number); "unreadable", a file that cannot be
\* opened.  JSONDecodeError and
\* IOError are caught; _runtime_config.update(saved) raises a TypeError
\* when saved is not a mapping
load_raises(file) == file.exists /\ file.form = "nonobject"

\* _load_config(): the keys a config.json object holds override the defaults
load_config(defaults, file) ==
    IF file.exists /\ file.form = "object" THEN file.content @@ defaults
    ELSE defaults

\* _save_config() that keeps what the file already holds
saved_file_merged(config) ==
    [exists |-> TRUE, form |-> "object",
     content |-> IF config_file.exists /\ config_file.form = "object"
                 THEN config_file.content @@ config ELSE config]

\* _save_config(): json.dump of the whole _runtime_config
saved_file(config) == [exists |-> TRUE, form |-> "object", content |-> config]

\* set_default_project(project_key), with the _save_config() it ends with
set_default_project(config, project_key) ==
    [config EXCEPT !.default_project = project_key]

\* set_default_sprint_id that keeps the text of every id, of 0 too
set_default_sprint_id_str(config, sprint_id) ==
    [config EXCEPT !.default_sprint_id = str(sprint_id)]

\* set_default_sprint_id(sprint_id), with the _save_config() it ends with
set_default_sprint_id(config, sprint_id) ==
    [config EXCEPT !.default_sprint_id = IF sprint_id # 0 THEN str(sprint_id) ELSE <<>>]

\* Python: s.upper()
upper(s) ==
    [k \in 1..Len(s) |->
        CASE s[k] = "p" -> "P" [] s[k] = "q" -> "Q" [] s[k] = "z" -> "Z"
          [] OTHER -> s[k]]

InList(x, list) == \E k \in 1..Len(list) : list[k] = x

\* the clause get_project_jql() renders: project IN (k1, k2, ...)
get_project_jql == [kind |-> "projectIn", val |-> PROJECT_KEYS]

----------------------------------------------------------------------------
(* The remote issue store *)

RemoteProjects == {P, Q}
FailStatuses == {400, 500}

is_success(status) == status >= 200 /\ status < 300

\* response.text of a non-success response
ResponseText(status) == IF status = 400 THEN "Bad Request" ELSE "Server Error"

\* fields.get("description") of an item that has none.  A description is
\* null (type "none"), a string (type "str") or a rich-text document
\* (type "doc", with its content)
NoDescription == [type |-> "none"]

\* the items the store holds before the process starts: the oldest is Done
ExistingIssue(j) ==
    LET proj == IF j % 2 = 1 THEN P ELSE Q
    IN  [key |-> proj \o <<"-">> \o str(j), summary |-> <<"a">>,
         status |-> IF j = 1 THEN "Done" ELSE "To Do",
         statusCategory |-> IF j = 1 THEN "Done" ELSE "To Do",
         project |-> proj, issuetype |-> DEFAULT_ISSUE_TYPE,
         assignee |-> IF j % 2 = 1 THEN "me" ELSE "", parent |-> None,
         description |-> NoDescription, comments |-> <<>>]

IsPrefix(s, t) == Len(s) <= Len(t) /\ SubSeq(t, 1, Len(s)) = s

\* one JQL clause evaluated on one stored item
Satisfies(issue, clause) ==
    CASE clause.kind = "text" ->
            IsPrefix(issue.summary, clause.val) \/ IsPrefix(clause.val, issue.summary)
      [] clause.kind = "notDone" -> issue.statusCategory # "Done"
      [] clause.kind = "projectEq" -> issue.project = clause.val
      [] clause.kind = "projectIn" ->
            \E k \in 1..Len(clause.val) : clause.val[k] = issue.project
      [] clause.kind = "assigneeMe" -> issue.assignee = "me"
      [] clause.kind = "assigneeEmpty" -> issue.assignee = ""
      [] clause.kind = "statusEq" -> issue.status = clause.val
      [] clause.kind = "issuetypeEq" -> issue.issuetype = clause.val
      [] clause.kind = "parentEq" -> issue.parent = clause.val

RECURSIVE SelectDesc(_, _)
\* the stored items that satisfy every clause, most recently updated first
SelectDesc(store, parts) ==
    IF store = <<>> THEN <<>>
    ELSE LET last == store[Len(store)]
             rest == SelectDesc(SubSeq(store, 1, Len(store) - 1), parts)
         IN  IF \A k \in 1..Len(parts) : Satisfies(last, parts[k])
             THEN <<last>> \o rest ELSE rest

\* POST /rest/api/3/search/jql answered with 200
SearchResponse(req) ==
    LET hits == SelectDesc(issues, req.jql.parts)
    IN  SubSeq(hits, 1, Min(req.maxResults, Len(hits)))

\* the item POST /rest/api/3/issue adds when it answers 201
CreatedIssue(fields) ==
    [key |-> fields.project \o <<"-">> \o str(Len(issues) + 1),
     summary |-> fields.summary, status |-> "To Do", statusCategory |-> "To Do",
     project |-> fields.project, issuetype |-> fields.issuetype,
     assignee |-> "",
     parent |-> IF "parent" \in DOMAIN fields THEN fields["parent"] ELSE None,
     description |-> IF "description" \in DOMAIN fields THEN fields["description"]
                     ELSE NoDescription,
     comments |-> <<>>]

----------------------------------------------------------------------------
(* tools/search_similar_tickets.py *)

\* the request search_similar_tickets() posts
search_similar_tickets(search_text, max_results, include_done, project_filter) ==
    LET jql_parts ==
            <<[kind |-> "text", val |-> search_text]>>
            \o (IF ~include_done THEN <<[kind |-> "notDone", val |-> <<>>]>> ELSE <<>>)
            \o (IF project_filter # None
                THEN <<[kind |-> "projectEq", val |-> project_filter]>>
                ELSE IF PROJECT_KEYS # <<>> THEN <<get_project_jql>> ELSE <<>>)
    IN  [kind |-> "search",
         jql |-> [parts |-> jql_parts,
                  order |-> <<[field |-> "updated", dir |-> "DESC"]>>],
         maxResults |-> max_results]

RECURSIVE paragraph_text(_)
\* the texts of the items of type "text" of one paragraph, concatenated
paragraph_text(items) ==
    IF items = <<>> THEN <<>>
    ELSE (IF items[1].type = "text" THEN items[1].text ELSE <<>>)
         \o paragraph_text(Tail(items))

RECURSIVE flatten(_, _)
\* the loop over the blocks of a document: every paragraph adds its text
\* and then newline, which is "\n" in fetch_ticket_details() for a
\* description and nothing in search_similar_tickets() and for a comment
flatten(content, newline) ==
    IF content = <<>> THEN <<>>
    ELSE (IF content[1].type = "paragraph"
          THEN paragraph_text(content[1].content) \o newline ELSE <<>>)
         \o flatten(Tail(content), newline)

\* desc_text: the flattened document, or else description or ""
desc_text_of(description, newline) ==
    IF description.type = "doc" /\ description.content # <<>>
    THEN [type |-> "str", text |-> flatten(description.content, newline)]
    ELSE IF description.type = "none" THEN [type |-> "str", text |-> <<>>]
    ELSE description

\* description_preview that cuts texts of PreviewCap characters too
description_preview_early(desc_text) ==
    IF desc_text.type = "str" /\ Len(desc_text.text) >= PreviewCap
    THEN [type |-> "str",
          text |-> SubSeq(desc_text.text, 1, PreviewCap) \o <<".",".",".">>]
    ELSE desc_text

\* desc_text[:200] + "..." if len(desc_text) > 200 else desc_text; the len()
\* of a document is the number of its keys
description_preview(desc_text) ==
    IF desc_text.type = "str" /\ Len(desc_text.text) > PreviewCap
    THEN [type |-> "str",
          text |-> SubSeq(desc_text.text, 1, PreviewCap) \o <<".",".",".">>]
    ELSE desc_text

\* the list search_similar_tickets() returns for a 200 response
tickets_of(found) ==
    [k \in 1..Len(found) |->
        [key |-> found[k].key, summary |-> found[k].summary,
         status |-> found[k].status,
         description_preview |->
             description_preview(desc_text_of(found[k].description, <<>>))]]

\* raise Exception(f"Jira API error {response.status_code}: {error_detail}")
JiraApiError(status) ==
    [kind |-> "Jira API error", status |-> status, body |-> ResponseText(status)]

NoError == [kind |-> "none", status |-> 0, body |-> ""]

ConfigError == [kind |-> "No default project configured", status |-> 0, body |-> ""]

----------------------------------------------------------------------------
(* One tool invocation.  calls is the list of requests it has posted.      *)
(* responses, searched_at and created_at are history: the status codes it  *)
(* was answered with, the size of the remote store when the search was     *)
(* answered, and the position of the created item in the store.            *)

NoArguments ==
    [summary |-> None, description |-> None, project |-> None, epic_key |-> None]

NoWarning == [count |-> 0, listed |-> <<>>]

NoResult == [key |-> None, url |-> None, project |-> None]

\* what fetch_ticket_details() has gathered
NoTicket ==
    [key |-> None, status |-> "", available_transitions |-> <<>>,
     description |-> <<>>, comments |-> <<>>]

Idle ==
    [pc |-> "idle", tool |-> "none", arguments |-> NoArguments,
     default_project |-> None, calls |-> <<>>, similar |-> <<>>,
     warning |-> NoWarning, error |-> NoError, result |-> NoResult,
     responses |-> <<>>, searched_at |-> 0, created_at |-> 0,
     transition_name |-> None, transitions_data |-> <<>>, transition_id |-> 0,
     available_transitions |-> <<>>, fields |-> <<>>, ticket |-> NoTicket,
     tickets |-> <<>>, projects |-> <<>>, boards |-> <<>>,
     boards_checked |-> <<>>, all_sprints |-> <<>>, unique_sprints |-> <<>>,
     issue |-> [description |-> NoDescription, comments |-> <<>>],
     text |-> <<>>]

\* return [TextContent(type="text", text="Error: ...")]
ReturnError(r, message) ==
    [r EXCEPT !.pc = "rejected", !.error = [kind |-> message, status |-> 0, body |-> ""]]

\* an exception leaves the handler
Raise(r, exception) == [r EXCEPT !.pc = "raised", !.error = exception]

\* the handler awaits the response to a request it has just posted
Await(r, pc, request) == [r EXCEPT !.pc = pc, !.calls = Append(@, request)]

\* warning_of with the header stating the number of listed candidates
warning_of_listed_count(similar) ==
    IF similar = <<>> THEN NoWarning
    ELSE [count |-> Min(WarnCap, Len(similar)),
          listed |-> SubSeq(similar, 1, Min(WarnCap, Len(similar)))]

\* warning = "" unless similar; the header states len(similar), similar[:3] is listed
warning_of(similar) ==
    IF similar = <<>> THEN NoWarning
    ELSE [count |-> Len(similar),
          listed |-> SubSeq(similar, 1, Min(WarnCap, Len(similar)))]

\* the rich-text document a description is wrapped in
doc_of(description) ==
    [type |-> "doc", version |-> 1,
     content |-> <<[type |-> "paragraph",
                    content |-> <<[type |-> "text", text |-> description]>>]>>]

\* fields["description"] = {...} if description
with_description(fields, description) ==
    IF description # None THEN fields @@ ("description" :> doc_of(description))
    ELSE fields

\* {"key": data.get("key"), "url": f"{JIRA_HOST}/browse/{data.get('key')}"}
browse_url(key) == JIRA_HOST \o <<"/","b","r","o","w","s","e","/">> \o key

----------------------------------------------------------------------------
(* tools/create_new_ticket.py *)

\* create_ticket that leaves the default sprint out
create_ticket_without_sprint(summary, description, epic_key) ==
    LET project_key == IF epic_key # None THEN rsplit_head(epic_key)
                       ELSE get_default_project
        fields == [project |-> project_key, summary |-> summary,
                   issuetype |-> DEFAULT_ISSUE_TYPE, priority |-> DEFAULT_PRIORITY]
        with_desc == with_description(fields, description)
        with_parent == IF epic_key # None
                       THEN with_desc @@ ("parent" :> epic_key) ELSE with_desc
    IN  [raises |-> epic_key = None /\ project_key = None,
         request |-> [kind |-> "create", fields |-> with_parent]]

\* create_ticket() up to its POST: either it raises or it posts these fields
create_ticket(summary, description, epic_key) ==
    LET project_key == IF epic_key # None THEN rsplit_head(epic_key)
                       ELSE get_default_project
        fields == [project |-> project_key, summary |-> summary,
                   issuetype |-> DEFAULT_ISSUE_TYPE, priority |-> DEFAULT_PRIORITY]
        sprint_id == get_default_sprint_id
        with_sprint == IF sprint_id # <<>>
                       THEN fields @@ (SPRINT_FIELD :> int(sprint_id)) ELSE fields
        with_desc == with_description(with_sprint, description)
        with_parent == IF epic_key # None
                       THEN with_desc @@ ("parent" :> epic_key) ELSE with_desc
    IN  [raises |-> epic_key = None /\ project_key = None,
         request |-> [kind |-> "create", fields |-> with_parent]]

\* create_new_ticket_start without the test of the default project
create_new_ticket_start_unchecked(arguments) ==
    LET r == [Idle EXCEPT !.tool = "create_new_ticket", !.arguments = arguments]
        summary == arguments.summary
    IN  IF summary = None THEN ReturnError(r, "summary is required")
        ELSE Await([r EXCEPT !.default_project = get_default_project], "search",
                   search_similar_tickets(summary, SearchCap, FALSE, None))

\* handler(), lines 95-103: validation, then the search is posted
create_new_ticket_start(arguments) ==
    LET r == [Idle EXCEPT !.tool = "create_new_ticket", !.arguments = arguments]
        summary == arguments.summary
        default_project == get_default_project
    IN  IF summary = None THEN ReturnError(r, "summary is required")
        ELSE IF default_project = None
        THEN ReturnError(r, "No default project configured")
        ELSE Await([r EXCEPT !.default_project = default_project], "search",
                   search_similar_tickets(summary, SearchCap, FALSE, None))

\* create_new_ticket_resume with a handler that stops at a non-empty result
create_new_ticket_resume_blocked(r, similar) ==
    LET r1 == [r EXCEPT !.similar = similar, !.warning = warning_of(similar)]
        c == create_ticket(r.arguments.summary, r.arguments.description,
                           r.arguments.epic_key)
    IN  IF similar # <<>> THEN ReturnError(r1, "similar tickets exist")
        ELSE IF c.raises THEN Raise(r1, ConfigError)
        ELSE Await(r1, "create", c.request)

\* handler(), lines 105-117: the warning, then create_ticket() posts
create_new_ticket_resume(r, similar) ==
    LET r1 == [r EXCEPT !.similar = similar, !.warning = warning_of(similar)]
        c == create_ticket(r.arguments.summary, r.arguments.description,
                           r.arguments.epic_key)
    IN  IF c.raises THEN Raise(r1, ConfigError) ELSE Await(r1, "create", c.request)

\* handler(), lines 119-121: the text returned after a created ticket
create_new_ticket_finish(r, key) ==
    LET epic_key == r.arguments.epic_key
        project_used == IF epic_key # None THEN rsplit_head(epic_key)
                        ELSE r.default_project
    IN  [r EXCEPT !.pc = "done",
                  !.result = [key |-> key, url |-> browse_url(key),
                              project |-> project_used]]

----------------------------------------------------------------------------
(* tools/create_new_epic.py *)

create_epic(project, summary, description) ==
    LET fields == [project |-> project, summary |-> summary,
                   issuetype |-> <<"E","p","i","c">>]
    IN  [raises |-> FALSE,
         request |-> [kind |-> "create",
                      fields |-> with_description(fields, description)]]

\* create_new_epic_start with a handler that creates without searching
create_new_epic_start_unsearched(arguments) ==
    LET r == [Idle EXCEPT !.tool = "create_new_epic", !.arguments = arguments]
        project == arguments.project
        summary == arguments.summary
    IN  IF project = None \/ summary = None
        THEN ReturnError(r, "project and summary are required")
        ELSE Await(r, "create",
                   create_epic(project, summary, arguments.description).request)

\* handler(), lines 78-84: validation, then the search is posted
create_new_epic_start(arguments) ==
    LET r == [Idle EXCEPT !.tool = "create_new_epic", !.arguments = arguments]
        project == arguments.project
        summary == arguments.summary
    IN  IF project = None \/ summary = None
        THEN ReturnError(r, "project and summary are required")
        ELSE Await(r, "search",
                   search_similar_tickets(summary \o <<" ","E","p","i","c">>,
                                          SearchCap, FALSE, None))

create_new_epic_resume(r, similar) ==
    LET r1 == [r EXCEPT !.similar = similar, !.warning = warning_of(similar)]
        c == create_epic(r.arguments.project, r.arguments.summary,
                         r.arguments.description)
    IN  Await(r1, "create", c.request)

create_new_epic_finish(r, key) ==
    [r EXCEPT !.pc = "done",
              !.result = [key |-> key, url |-> browse_url(key), project |-> None]]

----------------------------------------------------------------------------
(* tools/create_new_ticket_advanced.py *)

\* create_ticket_advanced with the default taking precedence over the argument
create_ticket_advanced_default_first(summary, project_arg, description, epic_key) ==
    LET project == IF DEFAULT_PROJECT # None THEN DEFAULT_PROJECT ELSE project_arg
        fields == [project |-> project, summary |-> summary,
                   issuetype |-> DEFAULT_ISSUE_TYPE, priority |-> DEFAULT_PRIORITY]
        with_desc == with_description(fields, description)
        with_parent == IF epic_key # None
                       THEN with_desc @@ ("parent" :> epic_key) ELSE with_desc
    IN  [raises |-> project = None,
         request |-> [kind |-> "create", fields |-> with_parent]]

\* create_ticket_advanced(), lines 55-74: project = project or DEFAULT_PROJECT
create_ticket_advanced(summary, project_arg, description, epic_key) ==
    LET project == IF project_arg # None THEN project_arg ELSE DEFAULT_PROJECT
        fields == [project |-> project, summary |-> summary,
                   issuetype |-> DEFAULT_ISSUE_TYPE, priority |-> DEFAULT_PRIORITY]
        with_desc == with_description(fields, description)
        with_parent == IF epic_key # None
                       THEN with_desc @@ ("parent" :> epic_key) ELSE with_desc
    IN  [raises |-> project = None,
         request |-> [kind |-> "create", fields |-> with_parent]]

create_new_ticket_advanced_start(arguments) ==
    LET r == [Idle EXCEPT !.tool = "create_new_ticket_advanced",
                          !.arguments = arguments]
        summary == arguments.summary
        project == IF arguments.project # None THEN arguments.project
                   ELSE DEFAULT_PROJECT
    IN  IF summary = None THEN ReturnError(r, "summary is required")
        ELSE IF project = None
        THEN ReturnError(r, "No project specified and no default project configured")
        ELSE Await(r, "search",
                   search_similar_tickets(summary, SearchCap, FALSE, project))

create_new_ticket_advanced_resume(r, similar) ==
    LET r1 == [r EXCEPT !.similar = similar, !.warning = warning_of(similar)]
        c == create_ticket_advanced(r.arguments.summary, r.arguments.project,
                                    r.arguments.description, r.arguments.epic_key)
    IN  IF c.raises THEN Raise(r1, ConfigError) ELSE Await(r1, "create", c.request)

create_new_ticket_advanced_finish(r, key) ==
    [r EXCEPT !.pc = "done",
              !.result = [key |-> key, url |-> browse_url(key),
                          project |-> r.calls[Len(r.calls)].fields.project]]

----------------------------------------------------------------------------
(* server.py: create_ticket() and the create_new_ticket branch of call_tool *)

server_create_ticket(project, summary, description, epic_key) ==
    LET fields == [project |-> project, summary |-> summary,
                   issuetype |-> DEFAULT_ISSUE_TYPE]
        with_desc == with_description(fields, description)
        with_parent == IF epic_key # None
                       THEN with_desc @@ ("parent" :> epic_key) ELSE with_desc
    IN  [raises |-> FALSE, request |-> [kind |-> "create", fields |-> with_parent]]

call_tool_create_new_ticket_start(arguments) ==
    LET r == [Idle EXCEPT !.tool = "call_tool", !.arguments = arguments]
        project == arguments.project
        summary == arguments.summary
    IN  IF project = None \/ summary = None
        THEN ReturnError(r, "project and summary are required")
        ELSE Await(r, "search",
                   search_similar_tickets(summary, SearchCap, FALSE, None))

call_tool_create_new_ticket_resume(r, similar) ==
    LET r1 == [r EXCEPT !.similar = similar, !.warning = warning_of(similar)]
        c == server_create_ticket(r.arguments.project, r.arguments.summary,
                                  r.arguments.description, r.arguments.epic_key)
    IN  Await(r1, "create", c.request)

call_tool_create_new_ticket_finish(r, key) ==
    [r EXCEPT !.pc = "done",
              !.result = [key |-> key, url |-> browse_url(key), project |-> None]]

----------------------------------------------------------------------------
(* The remote workflow: the transitions an item offers, by id, name and    *)
(* the status a transition leads to.                                       *)

\* Python: s.lower()
lower(s) ==
    [k \in 1..Len(s) |->
        CASE s[k] = "D" -> "d" [] s[k] = "O" -> "o" [] s[k] = "N" -> "n"
          [] s[k] = "E" -> "e" [] s[k] = "G" -> "g" [] s[k] = "M" -> "m"
          [] OTHER -> s[k]]

\* the lists GET /issue/{key}/transitions can answer with
Workflows ==
    {<<>>,
     <<[id |-> 11, name |-> <<"G","o">>, to |-> "In Progress"],
       [id |-> 21, name |-> <<"D","o","n","e">>, to |-> "Done"]>>,
     <<[id |-> 31, name |-> <<"d","o","n","e">>, to |-> "To Do"],
       [id |-> 21, name |-> <<"D","o","n","e">>, to |-> "Done"]>>}

\* the status the transition with this id leads to
TransitionTarget(id) ==
    CASE id = 11 -> "In Progress" [] id = 21 -> "Done" [] OTHER -> "To Do"

\* position of the stored item with this key, 0 when there is none
IssueAt(key) ==
    LET idx == {k \in 1..Len(issues) : issues[k].key = key}
    IN  IF idx = {} THEN 0 ELSE CHOOSE k \in idx : TRUE

\* [t.get("name") for t in transitions]
names_of(transitions) == [k \in 1..Len(transitions) |-> transitions[k].name]

----------------------------------------------------------------------------
(* tools/transition_ticket.py and tools/get_ticket_details.py *)

TransitionNotFound ==
    [kind |-> "Transition not found", status |-> 0, body |-> ""]

\* first_match that goes on to the last transition of that name
last_match(transitions, transition_name) ==
    LET hits == {k \in 1..Len(transitions) :
                    lower(transitions[k].name) = lower(transition_name)}
    IN  IF hits = {} THEN 0 ELSE CHOOSE k \in hits : \A m \in hits : m <= k

\* position of the first transition the loop of lines 49-53 stops at, 0 when
\* it runs to the end
first_match(transitions, transition_name) ==
    LET hits == {k \in 1..Len(transitions) :
                    lower(transitions[k].name) = lower(transition_name)}
    IN  IF hits = {} THEN 0 ELSE CHOOSE k \in hits : \A m \in hits : k <= m

\* handler() and transition_ticket() up to the GET of the transitions
transition_ticket_start(r, ticket_key, transition_name) ==
    Await([r EXCEPT !.transition_name = transition_name], "transitions",
          [kind |-> "list_transitions", key |-> ticket_key])

\* transition_ticket_lookup that applies the first listed transition when
\* no name matches
transition_ticket_lookup_fallback(r, transitions) ==
    LET k == first_match(transitions, r.transition_name)
        r1 == [r EXCEPT !.transitions_data = transitions,
                        !.available_transitions = names_of(transitions),
                        !.transition_id =
                            IF k # 0 THEN transitions[k].id
                            ELSE IF transitions # <<>> THEN transitions[1].id ELSE 0]
    IN  IF r1.transition_id = 0 THEN Raise(r1, TransitionNotFound)
        ELSE Await(r1, "apply",
                   [kind |-> "apply_transition", key |-> r.calls[Len(r.calls)].key,
                    id |-> r1.transition_id])

\* transition_ticket(), lines 47-61: the loop over the transitions, then the
\* exception or the POST
transition_ticket_lookup(r, transitions) ==
    LET k == first_match(transitions, r.transition_name)
        r1 == [r EXCEPT !.transitions_data = transitions,
                        !.available_transitions =
                            names_of(SubSeq(transitions, 1,
                                            IF k = 0 THEN Len(transitions) ELSE k)),
                        !.transition_id = IF k = 0 THEN 0 ELSE transitions[k].id]
    IN  IF r1.transition_id = 0 THEN Raise(r1, TransitionNotFound)
        ELSE Await(r1, "apply",
                   [kind |-> "apply_transition", key |-> r.calls[Len(r.calls)].key,
                    id |-> r1.transition_id])

\* fetch_ticket_details() up to its first GET
fetch_ticket_details_start(r, ticket_key) ==
    Await(r, "details", [kind |-> "get_issue", key |-> ticket_key])

\* fetch_ticket_details(), lines 42-51: the item is kept, the transitions
\* are asked for
fetch_ticket_details_issue(r, issue) ==
    Await([r EXCEPT !.ticket.key = issue.key, !.ticket.status = issue.status,
                    !.issue = [description |-> issue.description,
                               comments |-> issue.comments]],
          "details_transitions",
          [kind |-> "list_transitions", key |-> r.calls[Len(r.calls)].key])

\* Python: s.strip(), for the whitespace " " and "\n"
strip(s) ==
    LET ink == {k \in 1..Len(s) : s[k] \notin {" ", "\n"}}
    IN  IF ink = {} THEN <<>>
        ELSE SubSeq(s, CHOOSE k \in ink : \A m \in ink : k <= m,
                       CHOOSE k \in ink : \A m \in ink : m <= k)

\* lines 72-81: the body of a comment as text
comment_body(body) ==
    IF body.type = "doc" /\ body.content # <<>> THEN flatten(body.content, <<>>)
    ELSE IF body.type = "str" THEN body.text ELSE <<>>

\* fetch_ticket_details(), lines 52-139, and the return of the handler that
\* called it; desc_text.strip() raises when desc_text is a document
fetch_ticket_details_finish(r, status, transitions) ==
    LET desc_text == desc_text_of(r.issue.description, <<"\n">>)
    IN  IF desc_text.type # "str"
        THEN Raise(r, [kind |-> "AttributeError", status |-> 0, body |-> ""])
        ELSE [r EXCEPT
                !.pc = "done",
                !.ticket.available_transitions =
                    IF is_success(status) THEN names_of(transitions) ELSE <<>>,
                !.ticket.description = strip(desc_text.text),
                !.ticket.comments =
                    [k \in 1..Len(r.issue.comments) |->
                        comment_body(r.issue.comments[k].body)],
                !.result.key = r.ticket.key,
                !.result.url = browse_url(r.calls[Len(r.calls)].key)]

----------------------------------------------------------------------------
(* tools/add_ticket_comment.py and tools/update_ticket_details.py *)

\* add_comment(), lines 61-65, and the return of handler()
add_ticket_comment_finish(r) ==
    [r EXCEPT !.pc = "done", !.result.key = r.arguments.ticket_key,
              !.result.url = browse_url(r.arguments.ticket_key)]

MyselfError ==
    [kind |-> "Failed to get current user info for self-assignment",
     status |-> 0, body |-> ""]

\* update_ticket_put with the transition asked for before the PUT
update_ticket_put_transition_first(r, fields) ==
    LET r1 == [r EXCEPT !.fields = fields]
    IN  IF r.arguments.status # None
        THEN transition_ticket_start(r1, r.arguments.ticket_key, r.arguments.status)
        ELSE IF DOMAIN fields # {}
        THEN Await(r1, "update",
                   [kind |-> "update", key |-> r.arguments.ticket_key,
                    fields |-> fields])
        ELSE Raise(r1, [kind |-> "No fields to update and no status transition requested",
                        status |-> 0, body |-> ""])

\* update_ticket(), lines 121-152: the PUT when there are fields, or else
\* the transition when a status is asked for, or else the exception
update_ticket_put(r, fields) ==
    LET r1 == [r EXCEPT !.fields = fields]
    IN  IF DOMAIN fields # {}
        THEN Await(r1, "update",
                   [kind |-> "update", key |-> r.arguments.ticket_key,
                    fields |-> fields])
        ELSE IF r.arguments.status # None
        THEN transition_ticket_start(r1, r.arguments.ticket_key, r.arguments.status)
        ELSE Raise(r1, [kind |-> "No fields to update and no status transition requested",
                        status |-> 0, body |-> ""])

\* update_ticket(), lines 100-104: the answer to GET /myself
update_ticket_myself(r, status) ==
    IF is_success(status)
    THEN update_ticket_put(r, r.fields @@ ("assignee" :> <<"i","d">>))
    ELSE Raise(r, MyselfError)

\* server_update_ticket with the PUT sent also when there is no field
server_update_ticket_always(r, fields) ==
    Await([r EXCEPT !.fields = fields], "update",
          [kind |-> "update", key |-> r.arguments.ticket_key, fields |-> fields])

\* server.py update_ticket(), lines 334-346: the exception or the PUT
server_update_ticket(r, fields) ==
    IF DOMAIN fields = {}
    THEN Raise(r, [kind |-> "No fields to update", status |-> 0, body |-> ""])
    ELSE Await([r EXCEPT !.fields = fields], "update",
               [kind |-> "update", key |-> r.arguments.ticket_key, fields |-> fields])

\* update_ticket(), lines 137-152, after a successful PUT; server.py's
\* update_ticket() returns after its PUT, line 350
update_ticket_updated(r) ==
    IF r.tool = "update_ticket_details" /\ r.arguments.status # None
    THEN transition_ticket_start(r, r.arguments.ticket_key, r.arguments.status)
    ELSE [r EXCEPT !.pc = "done", !.result.key = r.arguments.ticket_key,
                   !.result.url = browse_url(r.arguments.ticket_key)]

----------------------------------------------------------------------------
(* tools/list_sprints.py, with the boards and sprints of the remote store  *)

\* GET /rest/agile/1.0/board?projectKeyOrId=...: board 1 spans both projects
BoardsOf(project_key) ==
    IF project_key = P
    THEN <<[id |-> 1, type |-> "scrum"], [id |-> 2, type |-> "kanban"]>>
    ELSE <<[id |-> 1, type |-> "scrum"]>>

\* the sprints of a board: sprint 7 is on both boards, sprint 3 comes
\* without a state, s.get("state", "unknown"), and board 3 has no sprint
SprintsOf(board_id) ==
    IF board_id = 1
    THEN <<[id |-> 8, state |-> "future", board_id |-> 1],
           [id |-> 7, state |-> "active", board_id |-> 1]>>
    ELSE IF board_id = 2
    THEN <<[id |-> 7, state |-> "active", board_id |-> 2],
           [id |-> 5, state |-> "closed", board_id |-> 2],
           [id |-> 3, state |-> "unknown", board_id |-> 2]>>
    ELSE <<>>

\* fetch_sprints(), lines 52-54: params={"state": states}
states_of(include_closed) ==
    IF include_closed THEN {"active", "future", "closed"} ELSE {"active", "future"}

\* GET /rest/agile/1.0/board/{id}/sprint answered with 200: the sprints of
\* the board that are in one of the states asked for
SprintsResponse(request) ==
    SelectSeq(SprintsOf(request.board_id),
              LAMBDA sprint : sprint.state \in request.states \cup {"unknown"})

\* state_order.get(s["state"], 99)
state_order(state) ==
    CASE state = "active" -> 0 [] state = "future" -> 1 [] state = "closed" -> 2
      [] OTHER -> 99

RECURSIVE unique(_)
\* lines 118-123: the first sprint of every id, in the order met
unique(sprints) ==
    IF sprints = <<>> THEN <<>>
    ELSE LET init == unique(SubSeq(sprints, 1, Len(sprints) - 1))
             last == sprints[Len(sprints)]
         IN  IF \E k \in 1..Len(init) : init[k].id = last.id THEN init
             ELSE Append(init, last)

RECURSIVE sorted(_)
\* list.sort(key=lambda s: (state_order.get(s["state"], 99), s["id"])) on
\* sprints of distinct ids
sorted(sprints) ==
    IF sprints = <<>> THEN <<>>
    ELSE LET sprint_before(a, b) ==
                 \/ state_order(a.state) < state_order(b.state)
                 \/ state_order(a.state) = state_order(b.state) /\ a.id < b.id
             k == CHOOSE m \in 1..Len(sprints) :
                     \A n \in 1..Len(sprints) :
                         n = m \/ sprint_before(sprints[m], sprints[n])
         IN  <<sprints[k]>>
             \o sorted([n \in 1..(Len(sprints) - 1) |->
                          IF n < k THEN sprints[n] ELSE sprints[n + 1]])

RECURSIVE join(_)
\* ", ".join(boards_checked), the boards named by their ids
join(boards_checked) ==
    IF boards_checked = <<>> THEN <<>>
    ELSE IF Len(boards_checked) = 1 THEN str(boards_checked[1])
    ELSE str(boards_checked[1]) \o <<",", " ">> \o join(Tail(boards_checked))

\* list_sprints_finish that lists the sprints in the order met
list_sprints_finish_unsorted(r) ==
    LET unique_sprints == unique(r.all_sprints)
    IN  [r EXCEPT
           !.pc = "done",
           !.unique_sprints = unique_sprints,
           !.text =
              IF r.all_sprints = <<>>
              THEN <<[part |-> "No sprints found. Boards checked: ",
                      val |-> join(r.boards_checked)]>>
              ELSE <<[part |-> "Found", val |-> str(Len(unique_sprints))]>>
                   \o [k \in 1..Len(unique_sprints) |->
                          [part |-> "sprint", val |-> str(unique_sprints[k].id)]]]

\* handler(), lines 114-150: the reply, a message when no sprint was
\* gathered and else the number of sprints and one entry for each
list_sprints_finish(r) ==
    LET unique_sprints == sorted(unique(r.all_sprints))
    IN  [r EXCEPT
           !.pc = "done",
           !.unique_sprints = unique_sprints,
           !.text =
              IF r.all_sprints = <<>>
              THEN <<[part |-> "No sprints found. Boards checked: ",
                      val |-> join(r.boards_checked)]>>
              ELSE <<[part |-> "Found", val |-> str(Len(unique_sprints))]>>
                   \o [k \in 1..Len(unique_sprints) |->
                          [part |-> "sprint", val |-> str(unique_sprints[k].id)]]]

\* handler(), the loop of lines 103-112 at its next request
list_sprints_next(r) ==
    IF r.boards # <<>>
    THEN Await([r EXCEPT !.boards = Tail(@),
                         !.boards_checked = Append(@, Head(r.boards).id)],
               "sprints", [kind |-> "list_sprints", board_id |-> Head(r.boards).id,
                           states |-> states_of(r.arguments.include_closed)])
    ELSE IF r.projects # <<>>
    THEN Await([r EXCEPT !.projects = Tail(@)], "boards",
               [kind |-> "list_boards", project |-> Head(r.projects)])
    ELSE list_sprints_finish(r)

\* list_sprints_boards with a failed GET of the boards raised
list_sprints_boards_raising(r, status, boards) ==
    IF is_success(status) THEN list_sprints_next([r EXCEPT !.boards = boards])
    ELSE Raise(r, JiraApiError(status))

\* fetch_boards(), lines 40-47, and the loop of the handler going on
list_sprints_boards(r, status, boards) ==
    list_sprints_next([r EXCEPT !.boards = IF is_success(status) THEN boards
                                          ELSE <<>>])

\* fetch_sprints(), lines 65-81, and the handler going on: lines 95-97 for
\* a given board, lines 107-112 in the loop
list_sprints_sprints(r, status, sprints) ==
    IF r.arguments.board_id # 0
    THEN IF is_success(status)
         THEN list_sprints_finish(
                  [r EXCEPT !.all_sprints = @ \o sprints,
                            !.boards_checked = Append(@, r.arguments.board_id)])
         ELSE Raise(r, JiraApiError(status))
    ELSE list_sprints_next(
             [r EXCEPT !.all_sprints = IF is_success(status) THEN @ \o sprints
                                       ELSE @])

----------------------------------------------------------------------------
(* The listing tools: one search request each *)

\* project_filter, or else the configured projects
project_clause(project) ==
    IF project # None THEN <<[kind |-> "projectEq", val |-> project]>>
    ELSE IF PROJECT_KEYS # <<>> THEN <<get_project_jql>> ELSE <<>>

\* search_request with no ordering clause
search_request_unordered(parts, order, max_results) ==
    [kind |-> "search", jql |-> [parts |-> parts, order |-> <<>>],
     maxResults |-> max_results]

\* jql = " AND ".join(jql_parts) + " ORDER BY ...", the sort keys in their
\* order, and the body of the POST
search_request(parts, order, max_results) ==
    [kind |-> "search", jql |-> [parts |-> parts, order |-> order],
     maxResults |-> max_results]

\* list_text with nothing returned for an empty list
list_text_blank(r, tickets) ==
    IF tickets = <<>> THEN <<>>
    ELSE <<[part |-> "Found", val |-> str(Len(tickets))]>>
         \o [k \in 1..Len(tickets) |-> [part |-> "item", val |-> tickets[k].key]]

\* the text a listing handler returns, as the literal it starts with and
\* the value put into it: format_ticket_list(tickets, header) and the
\* handlers of get_available_epics, get_epic_tickets and
\* search_similar_tickets return a message for an empty list, and else the
\* number of items and one entry for each
list_text(r, tickets) ==
    IF tickets = <<>>
    THEN <<CASE r.tool = "get_assigned_tickets" ->
                  [part |-> "No {header.lower()} found.",
                   val |-> lower(<<"t","i","c","k","e","t","(","s",")"," ","a","s","s","i","g","n","e","d"," ","t","o"," ","y","o","u">>)]
             [] r.tool = "get_available_tickets" ->
                  [part |-> "No {header.lower()} found.",
                   val |-> lower(<<"a","v","a","i","l","a","b","l","e"," ","t","i","c","k","e","t","(","s",")">>)]
             [] r.tool = "get_available_epics" ->
                  [part |-> "No open epics found.", val |-> <<>>]
             [] r.tool = "get_epic_tickets" ->
                  [part |-> "No tickets found under epic ",
                   val |-> r.arguments.epic_key]
             [] r.tool = "search_similar_tickets" ->
                  [part |-> "No similar tickets found for: ",
                   val |-> r.arguments.search_text]>>
    ELSE <<[part |-> "Found", val |-> str(Len(tickets))]>>
         \o [k \in 1..Len(tickets) |-> [part |-> "item", val |-> tickets[k].key]]

\* the listing tool returns what the search found
list_finish(r, found) ==
    [r EXCEPT !.pc = "done",
              !.text = list_text(r, found),
              !.tickets = IF r.tool = "search_similar_tickets" THEN tickets_of(found)
                          ELSE [k \in 1..Len(found) |->
                                   [key |-> found[k].key,
                                    summary |-> found[k].summary,
                                    status |-> found[k].status,
                                    project |-> found[k].project,
                                    type |-> found[k].issuetype]]]

----------------------------------------------------------------------------
(* tools/update_config.py *)

\* update_config_in that falls back to the defaults when called without
\* arguments
update_config_in_reset(config, arguments) ==
    LET has_project == "default_project" \in DOMAIN arguments
                       /\ arguments["default_project"] # None
        project_key == upper(arguments["default_project"])
        rejected == has_project /\ PROJECT_KEYS # <<>>
                    /\ ~InList(project_key, PROJECT_KEYS)
        c1 == IF has_project THEN set_default_project(config, project_key)
              ELSE config
        c2 == IF "default_sprint_id" \in DOMAIN arguments
              THEN set_default_sprint_id(c1, arguments["default_sprint_id"])
              ELSE c1
    IN  IF DOMAIN arguments = {}
        THEN [default_sprint_id |-> <<>>, default_project |-> None]
        ELSE IF rejected THEN config ELSE c2

\* handler(): the configuration it leaves in the memory of the process whose
\* _runtime_config is config; every set is saved at once
update_config_in(config, arguments) ==
    LET has_project == "default_project" \in DOMAIN arguments
                       /\ arguments["default_project"] # None
        project_key == upper(arguments["default_project"])
        rejected == has_project /\ PROJECT_KEYS # <<>>
                    /\ ~InList(project_key, PROJECT_KEYS)
        c1 == IF has_project THEN set_default_project(config, project_key)
              ELSE config
        c2 == IF "default_sprint_id" \in DOMAIN arguments
              THEN set_default_sprint_id(c1, arguments["default_sprint_id"])
              ELSE c1
    IN  IF DOMAIN arguments = {} \/ rejected THEN config ELSE c2

\* update_config that sets the sprint of a call whose project it refuses
update_config_sprint_despite_refusal(arguments) ==
    IF "default_sprint_id" \in DOMAIN arguments
    THEN set_default_sprint_id(update_config_in(runtime_config, arguments),
                               arguments["default_sprint_id"])
    ELSE update_config_in(runtime_config, arguments)

\* handler() in this process
update_config(arguments) == update_config_in(runtime_config, arguments)

\* update_config_saves with a set_default_sprint_id() that does not save
update_config_saves_project_only(arguments) ==
    LET has_project == "default_project" \in DOMAIN arguments
                       /\ arguments["default_project"] # None
        rejected == has_project /\ PROJECT_KEYS # <<>>
                    /\ ~InList(upper(arguments["default_project"]), PROJECT_KEYS)
    IN  ~rejected /\ has_project

\* whether handler() reached a _save_config()
update_config_saves(arguments) ==
    LET has_project == "default_project" \in DOMAIN arguments
                       /\ arguments["default_project"] # None
        rejected == has_project /\ PROJECT_KEYS # <<>>
                    /\ ~InList(upper(arguments["default_project"]), PROJECT_KEYS)
    IN  ~rejected /\ (has_project \/ "default_sprint_id" \in DOMAIN arguments)

NotSet == <<"(","n","o","t"," ","s","e","t",")">>

\* handler(), lines 35-76: the text it returns to a process whose
\* _runtime_config is config, as the literals and the values it is made of;
\* a change line reads "key: old -> val" when old is not empty and
\* "key: val" when it is
update_config_reply(config, arguments) ==
    LET line(part, old, val) == [part |-> part, old |-> old, val |-> val]
        has_project == "default_project" \in DOMAIN arguments
                       /\ arguments["default_project"] # None
        project_key == upper(arguments["default_project"])
        rejected == has_project /\ PROJECT_KEYS # <<>>
                    /\ ~InList(project_key, PROJECT_KEYS)
        old_project == config.default_project
        project_change ==
            IF has_project
            THEN <<line("default_project: ",
                        IF old_project # None /\ old_project # project_key
                        THEN old_project ELSE <<>>,
                        project_key)>>
            ELSE <<>>
        sprint_id == arguments["default_sprint_id"]
        old_sprint == config.default_sprint_id
        sprint_change ==
            IF "default_sprint_id" \in DOMAIN arguments
            THEN <<line("default_sprint_id: ",
                        IF old_sprint # <<>> /\ old_sprint # str(sprint_id)
                        THEN old_sprint ELSE <<>>,
                        str(sprint_id))>>
            ELSE <<>>
        changes == project_change \o sprint_change
    IN  IF DOMAIN arguments = {}
        THEN <<line("Current configuration:", <<>>, <<>>),
               line("default_project: ", <<>>,
                    IF config.default_project # None
                    THEN config.default_project ELSE NotSet),
               line("default_sprint_id: ", <<>>,
                    IF config.default_sprint_id # <<>>
                    THEN config.default_sprint_id ELSE NotSet)>>
        ELSE IF rejected
        THEN <<line("Error: '{project_key}' is not a configured project.",
                    <<>>, project_key)>>
        ELSE IF changes = <<>>
        THEN <<line("No changes made. Provide at least one setting to update.",
                    <<>>, <<>>)>>
        ELSE <<line("Updated configuration:", <<>>, <<>>)>> \o changes

----------------------------------------------------------------------------
(* Inputs *)

Slots == {1, 2}

Summaries == {None, <<"a">>, <<"b">>}
ProjectArgs == {None, P, Q}
EpicKeyArgs ==
    {None, <<"Q","-","1">>, <<"-","1">>, <<"Q">>, <<"P","-","Q","-","1">>}

DescriptionArgs == {None, <<"d">>}

TicketArguments ==
    [summary : Summaries, description : DescriptionArgs, project : ProjectArgs,
     epic_key : EpicKeyArgs]
EpicArguments ==
    [summary : Summaries, description : DescriptionArgs, project : ProjectArgs,
     epic_key : {None}]

ConfigProjectArgs == {None, <<"q">>, <<"Z">>}
SprintArgs == {0, 7}

\* a key of the arguments dict: absent, or present with a value
Optional(values) == {<<>>} \cup {<<v>> : v \in values}

\* the arguments dict of an update_config call
ConfigArguments(project, sprint) ==
    (IF project # <<>> THEN "default_project" :> project[1] ELSE <<>>)
    @@ (IF sprint # <<>> THEN "default_sprint_id" :> sprint[1] ELSE <<>>)

----------------------------------------------------------------------------
(* Initial state: the process has imported config.py *)

ExistingIssues(k) == [j \in 1..k |-> ExistingIssue(j)]

\* config.json does not exist
NoFile ==
    [exists |-> FALSE, form |-> "object",
     content |-> [default_sprint_id |-> <<>>, default_project |-> None]]

SavedConfigs ==
    {NoFile, saved_file([default_sprint_id |-> str(7), default_project |-> Q])}

\* no second server process runs
NoPeer ==
    [pc |-> "absent",
     runtime_config |-> [default_sprint_id |-> <<>>, default_project |-> None]]

Init ==
    /\ PROJECT_KEYS \in {<<>>, <<P>>}
    /\ DEFAULT_PROJECT \in {None, Q}
    /\ config_file \in SavedConfigs
    /\ runtime_config =
          load_config([default_sprint_id |-> <<>>,
                       default_project |-> IF PROJECT_KEYS # <<>>
                                           THEN PROJECT_KEYS[1] ELSE None],
                      config_file)
    /\ peer = NoPeer
    /\ \E k \in 0..MaxExisting : issues = ExistingIssues(k)
    /\ inv = [i \in Slots |-> Idle]

----------------------------------------------------------------------------
(* Actions *)

Env == <<PROJECT_KEYS, DEFAULT_PROJECT>>

\* tools/create_new_ticket.py handler() is called
create_new_ticket_handler(i, arguments) ==
    /\ inv[i].pc = "idle"
    /\ inv' = [inv EXCEPT ![i] = create_new_ticket_start(arguments)]
    /\ UNCHANGED <<Env, peer, runtime_config, config_file, issues>>

\* tools/create_new_epic.py handler() is called
create_new_epic_handler(i, arguments) ==
    /\ inv[i].pc = "idle"
    /\ inv' = [inv EXCEPT ![i] = create_new_epic_start(arguments)]
    /\ UNCHANGED <<Env, peer, runtime_config, config_file, issues>>

\* tools/create_new_ticket_advanced.py handler() is called
create_new_ticket_advanced_handler(i, arguments) ==
    /\ inv[i].pc = "idle"
    /\ inv' = [inv EXCEPT ![i] = create_new_ticket_advanced_start(arguments)]
    /\ UNCHANGED <<Env, peer, runtime_config, config_file, issues>>

\* server.py call_tool("create_new_ticket", arguments) is called
call_tool_create_new_ticket(i, arguments) ==
    /\ inv[i].pc = "idle"
    /\ inv' = [inv EXCEPT ![i] = call_tool_create_new_ticket_start(arguments)]
    /\ UNCHANGED <<Env, peer, runtime_config, config_file, issues>>

\* resume with a lock: no creation while another invocation creates the same summary
resume_locked(r, similar) ==
    IF \E j \in DOMAIN inv :
          /\ inv[j].pc \in {"create", "done"}
          /\ inv[j].arguments.summary = r.arguments.summary
    THEN ReturnError([r EXCEPT !.similar = similar], "creation in progress")
    ELSE CASE r.tool = "create_new_ticket" -> create_new_ticket_resume(r, similar)
           [] r.tool = "create_new_epic" -> create_new_epic_resume(r, similar)
           [] r.tool = "create_new_ticket_advanced" ->
                 create_new_ticket_advanced_resume(r, similar)
           [] r.tool = "call_tool" -> call_tool_create_new_ticket_resume(r, similar)

\* the code of the handler that follows its similarity search
resume(r, similar) ==
    CASE r.tool = "create_new_ticket" -> create_new_ticket_resume(r, similar)
      [] r.tool = "create_new_epic" -> create_new_epic_resume(r, similar)
      [] r.tool = "create_new_ticket_advanced" ->
            create_new_ticket_advanced_resume(r, similar)
      [] r.tool = "call_tool" -> call_tool_create_new_ticket_resume(r, similar)

\* result_text with the warning after the line of the created item
result_text_warning_last(warning, result) ==
    <<[part |-> "created", val |-> result.key]>>
    \o (IF warning = NoWarning THEN <<>>
        ELSE <<[part |-> "count", val |-> str(warning.count)]>>
             \o [k \in 1..Len(warning.listed) |->
                    [part |-> "candidate", val |-> warning.listed[k].key]])
    \o (IF result.project # None
        THEN <<[part |-> "project", val |-> result.project]>> ELSE <<>>)
    \o <<[part |-> "url", val |-> result.url]>>

\* the text the handler returns, f"{warning}Created ticket: {result['key']}\n
\* [Project: ...]URL: {result['url']}", as the values it is made of, in
\* the order of the text: the count and the listed keys of the warning,
\* the created key, the project where the tool states one, the URL
result_text(warning, result) ==
    (IF warning = NoWarning THEN <<>>
     ELSE <<[part |-> "count", val |-> str(warning.count)]>>
          \o [k \in 1..Len(warning.listed) |->
                 [part |-> "candidate", val |-> warning.listed[k].key]])
    \o <<[part |-> "created", val |-> result.key]>>
    \o (IF result.project # None
        THEN <<[part |-> "project", val |-> result.project]>> ELSE <<>>)
    \o <<[part |-> "url", val |-> result.url]>>

\* the code of the handler that follows its creation call
finish(r, key) ==
    LET returned ==
            CASE r.tool = "create_new_ticket" -> create_new_ticket_finish(r, key)
              [] r.tool = "create_new_epic" -> create_new_epic_finish(r, key)
              [] r.tool = "create_new_ticket_advanced" ->
                    create_new_ticket_advanced_finish(r, key)
              [] r.tool = "call_tool" -> call_tool_create_new_ticket_finish(r, key)
    IN  [returned EXCEPT !.text = result_text(returned.warning, returned.result)]

\* search_not_success with the failure swallowed as an empty result
search_not_success_swallowed(r, status) == resume(r, <<>>)

\* search_similar_tickets(), lines 70-72: if not response.is_success: raise
search_not_success(r, status) == Raise(r, JiraApiError(status))

\* create_ticket() and its siblings: if not response.is_success: raise
create_not_success(r, status) == Raise(r, JiraApiError(status))

\* the search response arrives: search_similar_tickets() returns or raises,
\* and on return the handler runs on to its creation call
SearchResponds(i) ==
    /\ inv[i].pc = "search"
    /\ \E status \in {200} \cup FailStatuses :
          LET r == [inv[i] EXCEPT !.responses = Append(@, status)]
              request == r.calls[Len(r.calls)]
          IN  inv' = [inv EXCEPT ![i] =
                        IF is_success(status)
                        THEN [resume(r, tickets_of(SearchResponse(request)))
                                EXCEPT !.searched_at = Len(issues)]
                        ELSE search_not_success(r, status)]
    /\ UNCHANGED <<Env, peer, runtime_config, config_file, issues>>

\* the creation response arrives: the store has added the item or refused
CreateResponds(i) ==
    /\ inv[i].pc = "create"
    /\ \E status \in {201} \cup FailStatuses :
          LET r == [inv[i] EXCEPT !.responses = Append(@, status)]
              fields == r.calls[Len(r.calls)].fields
          IN  /\ is_success(status) => fields.project \in RemoteProjects
              /\ IF is_success(status)
                 THEN /\ issues' = Append(issues, CreatedIssue(fields))
                      /\ inv' = [inv EXCEPT ![i] =
                                    [finish(r, CreatedIssue(fields).key)
                                       EXCEPT !.created_at = Len(issues) + 1]]
                 ELSE /\ issues' = issues
                      /\ inv' = [inv EXCEPT ![i] = create_not_success(r, status)]
    /\ UNCHANGED <<Env, peer, runtime_config, config_file>>

\* tools/update_config.py handler() is called
update_config_handler(arguments) ==
    /\ runtime_config' = update_config(arguments)
    /\ config_file' = IF update_config_saves(arguments)
                      THEN saved_file(runtime_config')
                      ELSE config_file
    /\ UNCHANGED <<Env, peer, issues, inv>>

Next ==
    \/ \E a \in TicketArguments : create_new_ticket_handler(1, a)
    \/ \E a \in EpicArguments : create_new_epic_handler(1, a)
    \/ \E a \in TicketArguments : create_new_ticket_advanced_handler(1, a)
    \/ \E a \in TicketArguments : call_tool_create_new_ticket(1, a)
    \/ SearchResponds(1)
    \/ CreateResponds(1)
    \/ \E p \in Optional(ConfigProjectArgs), s \in Optional(SprintArgs) :
          update_config_handler(ConfigArguments(p, s))

Spec == Init /\ [][Next]_vars

----------------------------------------------------------------------------
(* Two invocations in flight in one process: the event loop interleaves    *)
(* them at their awaits.                                                   *)

RaceArguments ==
    [summary : {<<"a">>, <<"b">>}, description : {None}, project : {P},
     epic_key : {None}]

InitRace ==
    /\ PROJECT_KEYS = <<P>>
    /\ DEFAULT_PROJECT = None
    /\ config_file = NoFile
    /\ runtime_config = [default_sprint_id |-> <<>>, default_project |-> P]
    /\ peer = NoPeer
    /\ \E k \in 0..MaxExisting : issues = ExistingIssues(k)
    /\ inv = [i \in Slots |-> Idle]

NextRace ==
    \E i \in Slots :
        \/ \E a \in RaceArguments : create_new_ticket_handler(i, a)
        \/ \E a \in RaceArguments : create_new_epic_handler(i, a)
        \/ \E a \in RaceArguments : create_new_ticket_advanced_handler(i, a)
        \/ \E a \in RaceArguments : call_tool_create_new_ticket(i, a)
        \/ SearchResponds(i)
        \/ CreateResponds(i)

SpecRace == InitRace /\ [][NextRace]_vars

----------------------------------------------------------------------------
(* Two server processes share config.json.  Each one loads the file once,  *)
(* when it imports config.py, and writes its whole _runtime_config at      *)
(* every set.  The file can also change outside the program: a write cut   *)
(* short, an edit, a change of permissions.                                *)

\* _runtime_config as config.py lines 23-26 build it
Defaults ==
    [default_sprint_id |-> <<>>,
     default_project |-> IF PROJECT_KEYS # <<>> THEN PROJECT_KEYS[1] ELSE None]

\* what config.json can be changed to outside the program: removed, not
\* an object, or an object that holds some of the two keys
ForeignFiles ==
    {NoFile}
    \cup {[exists |-> TRUE, form |-> f, content |-> NoFile.content] :
              f \in {"invalid", "nonobject", "unreadable"}}
    \cup {[exists |-> TRUE, form |-> "object", content |-> c] :
              c \in {<<>>, "default_project" :> Q, "default_sprint_id" :> str(3)}}

\* the second process starts: import of config.py runs _load_config()
peer_import ==
    /\ peer.pc = "absent"
    /\ peer' = IF load_raises(config_file)
               THEN [peer EXCEPT !.pc = "crashed"]
               ELSE [pc |-> "running",
                     runtime_config |-> load_config(Defaults, config_file)]
    /\ UNCHANGED <<Env, runtime_config, config_file, issues, inv>>

\* tools/update_config.py handler() is called in the second process
peer_update_config(arguments) ==
    /\ peer.pc = "running"
    /\ peer' = [peer EXCEPT !.runtime_config = update_config_in(@, arguments)]
    /\ config_file' = IF update_config_saves(arguments)
                      THEN saved_file(peer'.runtime_config)
                      ELSE config_file
    /\ UNCHANGED <<Env, runtime_config, issues, inv>>

\* config.json is changed outside the program
config_file_changed(file) ==
    /\ config_file' = file
    /\ UNCHANGED <<Env, runtime_config, peer, issues, inv>>

InitConfig ==
    /\ PROJECT_KEYS \in {<<>>, <<P, Q>>}
    /\ DEFAULT_PROJECT = None
    /\ config_file \in {f \in ForeignFiles : ~load_raises(f)}
    /\ runtime_config = load_config(Defaults, config_file)
    /\ peer = NoPeer
    /\ issues = <<>>
    /\ inv = [i \in Slots |-> Idle]

NextConfig ==
    \/ \E p \in Optional(ConfigProjectArgs), s \in Optional(SprintArgs) :
          update_config_handler(ConfigArguments(p, s))
    \/ peer_import
    \/ \E p \in Optional(ConfigProjectArgs), s \in Optional(SprintArgs) :
          peer_update_config(ConfigArguments(p, s))
    \/ \E file \in ForeignFiles : config_file_changed(file)

SpecConfig == InitConfig /\ [][NextConfig]_vars

----------------------------------------------------------------------------
(* One invocation at a time of any tool, with update_config calls between  *)
(* its steps.  Each handler runs to its first await or to its return.      *)

TicketKeys == {None, <<"P","-","1">>, <<"Q","-","9">>}

\* tools/transition_ticket.py handler(), lines 81-86
transition_ticket_handler(i, arguments) ==
    /\ inv[i].pc = "idle"
    /\ inv' = [inv EXCEPT ![i] =
             LET r == [Idle EXCEPT !.tool = "transition_ticket", !.arguments = arguments]
             IN  IF arguments.ticket_key = None \/ arguments.transition_name = None
                 THEN ReturnError(r, "ticket_key and transition_name are required")
                 ELSE transition_ticket_start(r, arguments.ticket_key,
                                              arguments.transition_name)]
    /\ UNCHANGED <<Env, peer, runtime_config, config_file, issues>>

\* tools/get_ticket_details.py handler(), lines 143-147
get_ticket_details_handler(i, arguments) ==
    /\ inv[i].pc = "idle"
    /\ inv' = [inv EXCEPT ![i] =
             LET r == [Idle EXCEPT !.tool = "get_ticket_details", !.arguments = arguments]
             IN  IF arguments.ticket_key = None
                 THEN ReturnError(r, "ticket_key is required")
                 ELSE fetch_ticket_details_start(r, arguments.ticket_key)]
    /\ UNCHANGED <<Env, peer, runtime_config, config_file, issues>>

\* handler(), lines 156-170, and update_ticket() up to its first request
update_ticket_details_handler(i, arguments) ==
    /\ inv[i].pc = "idle"
    /\ inv' = [inv EXCEPT ![i] =
             LET r == [Idle EXCEPT !.tool = "update_ticket_details", !.arguments = arguments]
                 fields == with_description(
                           IF arguments.summary # None
                           THEN "summary" :> arguments.summary ELSE <<>>,
                           arguments.description)
                 assignee == arguments.assignee
             IN  IF arguments.ticket_key = None THEN ReturnError(r, "ticket_key is required")
                 ELSE IF assignee = <<>> THEN update_ticket_put(r, fields)
                 ELSE IF lower(assignee[1]) = <<"m","e">>
                 THEN Await([r EXCEPT !.fields = fields], "myself", [kind |-> "myself"])
                 ELSE update_ticket_put(r, fields @@ ("assignee" :> assignee[1]))]
    /\ UNCHANGED <<Env, peer, runtime_config, config_file, issues>>

\* server.py call_tool("update_ticket_details", arguments), lines 791-803,
\* and update_ticket(), lines 308-335, up to its PUT
call_tool_update_ticket_details(i, arguments) ==
    /\ inv[i].pc = "idle"
    /\ inv' = [inv EXCEPT ![i] =
             LET r == [Idle EXCEPT !.tool = "call_tool_update_ticket_details",
                                   !.arguments = arguments]
                 fields == with_description(
                           IF arguments.summary # None
                           THEN "summary" :> arguments.summary ELSE <<>>,
                           arguments.description)
                 assignee == arguments.assignee
             IN  IF arguments.ticket_key = None THEN ReturnError(r, "ticket_key is required")
                 ELSE IF assignee = <<>> \/ assignee[1] = <<>>
                 THEN server_update_ticket(r, fields)
                 ELSE server_update_ticket(r, fields @@ ("assignee" :> assignee[1]))]
    /\ UNCHANGED <<Env, peer, runtime_config, config_file, issues>>

\* handler(), lines 69-77, and add_comment() up to its POST
add_ticket_comment_handler(i, arguments) ==
    /\ inv[i].pc = "idle"
    /\ inv' = [inv EXCEPT ![i] =
             LET r == [Idle EXCEPT !.tool = "add_ticket_comment", !.arguments = arguments]
             IN  IF arguments.ticket_key = None THEN ReturnError(r, "ticket_key is required")
                 ELSE IF arguments.comment = None THEN ReturnError(r, "comment is required")
                 ELSE Await(r, "comment",
                            [kind |-> "add_comment", key |-> arguments.ticket_key,
                             body |-> doc_of(arguments.comment)])]
    /\ UNCHANGED <<Env, peer, runtime_config, config_file, issues>>

\* handler(), lines 85-104
list_sprints_handler(i, arguments) ==
    /\ inv[i].pc = "idle"
    /\ inv' = [inv EXCEPT ![i] =
             LET r == [Idle EXCEPT !.tool = "list_sprints", !.arguments = arguments]
             IN  IF arguments.board_id # 0
                 THEN Await(r, "sprints",
                            [kind |-> "list_sprints", board_id |-> arguments.board_id,
                             states |-> states_of(arguments.include_closed)])
                 ELSE IF PROJECT_KEYS = <<>>
                 THEN ReturnError(r, "No PROJECT_KEYS configured")
                 ELSE list_sprints_next([r EXCEPT !.projects = PROJECT_KEYS])]
    /\ UNCHANGED <<Env, peer, runtime_config, config_file, issues>>

\* tools/get_assigned_tickets.py: handler() and fetch_assigned_tickets()
get_assigned_tickets_handler(i, arguments) ==
    /\ inv[i].pc = "idle"
    /\ inv' = [inv EXCEPT ![i] =
             LET r == [Idle EXCEPT !.tool = "get_assigned_tickets", !.arguments = arguments]
                 jql_parts ==
                     <<[kind |-> "assigneeMe", val |-> <<>>]>>
                     \o (IF arguments.exclude_done
                         THEN <<[kind |-> "notDone", val |-> <<>>]>> ELSE <<>>)
                     \o (IF arguments.status # ""
                         THEN <<[kind |-> "statusEq", val |-> arguments.status]>> ELSE <<>>)
                     \o (IF arguments.project # None
                         THEN <<[kind |-> "projectEq", val |-> arguments.project]>> ELSE <<>>)
             IN  Await(r, "list", search_request(jql_parts, <<[field |-> "updated", dir |-> "DESC"]>>,
                                       ListCap))]
    /\ UNCHANGED <<Env, peer, runtime_config, config_file, issues>>

\* tools/get_available_tickets.py: handler() and fetch_available_tickets()
get_available_tickets_handler(i, arguments) ==
    /\ inv[i].pc = "idle"
    /\ inv' = [inv EXCEPT ![i] =
             LET r == [Idle EXCEPT !.tool = "get_available_tickets", !.arguments = arguments]
                 status == IF arguments.status # "" THEN arguments.status
                           ELSE ACTIONABLE_STATUS
                 jql_parts ==
                     <<[kind |-> "assigneeEmpty", val |-> <<>>],
                       [kind |-> "statusEq", val |-> status]>>
                     \o project_clause(arguments.project)
             IN  Await(r, "list", search_request(jql_parts, <<[field |-> "updated", dir |-> "DESC"]>>,
                                       ListCap))]
    /\ UNCHANGED <<Env, peer, runtime_config, config_file, issues>>

\* tools/get_available_epics.py: handler() and fetch_available_epics()
get_available_epics_handler(i, arguments) ==
    /\ inv[i].pc = "idle"
    /\ inv' = [inv EXCEPT ![i] =
             LET r == [Idle EXCEPT !.tool = "get_available_epics", !.arguments = arguments]
                 jql_parts ==
                     <<[kind |-> "issuetypeEq", val |-> <<"E","p","i","c">>],
                       [kind |-> "notDone", val |-> <<>>]>>
                     \o project_clause(arguments.project)
             IN  Await(r, "list", search_request(jql_parts, <<[field |-> "updated", dir |-> "DESC"]>>,
                                       ListCap))]
    /\ UNCHANGED <<Env, peer, runtime_config, config_file, issues>>

\* tools/get_epic_tickets.py: handler() and fetch_epic_tickets()
get_epic_tickets_handler(i, arguments) ==
    /\ inv[i].pc = "idle"
    /\ inv' = [inv EXCEPT ![i] =
             LET r == [Idle EXCEPT !.tool = "get_epic_tickets", !.arguments = arguments]
                 jql_parts ==
                     <<[kind |-> "parentEq", val |-> arguments.epic_key]>>
                     \o (IF ~arguments.include_done
                         THEN <<[kind |-> "notDone", val |-> <<>>]>> ELSE <<>>)
             IN  IF arguments.epic_key = None THEN ReturnError(r, "epic_key is required")
                 ELSE Await(r, "list",
                            search_request(jql_parts,
                                           <<[field |-> "status", dir |-> "ASC"],
                                             [field |-> "updated", dir |-> "DESC"]>>,
                                           ListCap))]
    /\ UNCHANGED <<Env, peer, runtime_config, config_file, issues>>

\* tools/search_similar_tickets.py handler()
search_similar_tickets_handler(i, arguments) ==
    /\ inv[i].pc = "idle"
    /\ inv' = [inv EXCEPT ![i] =
             LET r == [Idle EXCEPT !.tool = "search_similar_tickets", !.arguments = arguments]
             IN  IF arguments.search_text = None
                 THEN ReturnError(r, "search_text is required")
                 ELSE Await(r, "list",
                            search_similar_tickets(arguments.search_text, SimilarCap,
                                                   arguments.include_done, arguments.project))]
    /\ UNCHANGED <<Env, peer, runtime_config, config_file, issues>>

\* a request answered with a non-success status and posted again
not_success_retried(r, status) == Await(r, r.pc, r.calls[Len(r.calls)])

\* if not response.is_success: raise Exception(f"Jira API error ...")
not_success(r, status) == Raise(r, JiraApiError(status))

\* the invocation with the status of the response it has just received
Answered(i, status) == [inv[i] EXCEPT !.responses = Append(@, status)]

\* GET /issue/{key}/transitions is answered to transition_ticket()
TransitionsResponds(i) ==
    /\ inv[i].pc = "transitions"
    /\ \E status \in {200} \cup FailStatuses :
          LET r == Answered(i, status)
          IN  IF is_success(status)
              THEN /\ IssueAt(r.calls[Len(r.calls)].key) # 0
                   /\ \E w \in Workflows :
                         inv' = [inv EXCEPT ![i] = transition_ticket_lookup(r, w)]
              ELSE inv' = [inv EXCEPT ![i] = not_success(r, status)]
    /\ UNCHANGED <<Env, peer, runtime_config, config_file, issues>>

\* POST /issue/{key}/transitions is answered: the item has the new status
ApplyResponds(i) ==
    /\ inv[i].pc = "apply"
    /\ \E status \in {204} \cup FailStatuses :
          LET r == Answered(i, status)
              request == r.calls[Len(r.calls)]
              k == IssueAt(request.key)
          IN  IF is_success(status)
              THEN /\ k # 0
                   /\ issues' = [issues EXCEPT
                                    ![k].status = TransitionTarget(request.id),
                                    ![k].statusCategory = TransitionTarget(request.id)]
                   /\ inv' = [inv EXCEPT ![i] =
                                 fetch_ticket_details_start(r, request.key)]
              ELSE /\ issues' = issues
                   /\ inv' = [inv EXCEPT ![i] = not_success(r, status)]
    /\ UNCHANGED <<Env, peer, runtime_config, config_file>>

\* GET /issue/{key} is answered to fetch_ticket_details()
DetailsResponds(i) ==
    /\ inv[i].pc = "details"
    /\ \E status \in {200} \cup FailStatuses :
          LET r == Answered(i, status)
              k == IssueAt(r.calls[Len(r.calls)].key)
          IN  IF is_success(status)
              THEN /\ k # 0
                   /\ inv' = [inv EXCEPT ![i] =
                                 fetch_ticket_details_issue(r, issues[k])]
              ELSE inv' = [inv EXCEPT ![i] = not_success(r, status)]
    /\ UNCHANGED <<Env, peer, runtime_config, config_file, issues>>

\* GET /issue/{key}/transitions is answered to fetch_ticket_details()
DetailsTransitionsResponds(i) ==
    /\ inv[i].pc = "details_transitions"
    /\ \E status \in {200} \cup FailStatuses :
          LET r == Answered(i, status)
          IN  IF is_success(status)
              THEN \E w \in Workflows :
                      inv' = [inv EXCEPT ![i] =
                                fetch_ticket_details_finish(r, status, w)]
              ELSE inv' = [inv EXCEPT ![i] =
                             fetch_ticket_details_finish(r, status, <<>>)]
    /\ UNCHANGED <<Env, peer, runtime_config, config_file, issues>>

\* GET /myself is answered to update_ticket()
MyselfResponds(i) ==
    /\ inv[i].pc = "myself"
    /\ \E status \in {200} \cup FailStatuses :
          inv' = [inv EXCEPT ![i] = update_ticket_myself(Answered(i, status), status)]
    /\ UNCHANGED <<Env, peer, runtime_config, config_file, issues>>

\* PUT /issue/{key} is answered: the item has the new fields
UpdateResponds(i) ==
    /\ inv[i].pc = "update"
    /\ \E status \in {204} \cup FailStatuses :
          LET r == Answered(i, status)
              request == r.calls[Len(r.calls)]
              k == IssueAt(request.key)
          IN  IF is_success(status)
              THEN /\ k # 0
                   /\ issues' = IF "summary" \in DOMAIN request.fields
                                THEN [issues EXCEPT
                                        ![k].summary = request.fields["summary"]]
                                ELSE issues
                   /\ inv' = [inv EXCEPT ![i] = update_ticket_updated(r)]
              ELSE /\ issues' = issues
                   /\ inv' = [inv EXCEPT ![i] = not_success(r, status)]
    /\ UNCHANGED <<Env, peer, runtime_config, config_file>>

\* POST /issue/{key}/comment is answered
CommentResponds(i) ==
    /\ inv[i].pc = "comment"
    /\ \E status \in {201} \cup FailStatuses :
          LET r == Answered(i, status)
          IN  IF is_success(status)
              THEN /\ IssueAt(r.calls[Len(r.calls)].key) # 0
                   /\ inv' = [inv EXCEPT ![i] = add_ticket_comment_finish(r)]
              ELSE inv' = [inv EXCEPT ![i] = not_success(r, status)]
    /\ UNCHANGED <<Env, peer, runtime_config, config_file, issues>>

\* GET /board is answered to fetch_boards()
BoardsResponds(i) ==
    /\ inv[i].pc = "boards"
    /\ \E status \in {200} \cup FailStatuses :
          LET r == Answered(i, status)
          IN  inv' = [inv EXCEPT ![i] =
                        list_sprints_boards(r, status,
                            BoardsOf(r.calls[Len(r.calls)].project))]
    /\ UNCHANGED <<Env, peer, runtime_config, config_file, issues>>

\* GET /board/{id}/sprint is answered to fetch_sprints()
SprintsResponds(i) ==
    /\ inv[i].pc = "sprints"
    /\ \E status \in {200} \cup FailStatuses :
          LET r == Answered(i, status)
          IN  inv' = [inv EXCEPT ![i] =
                        list_sprints_sprints(r, status,
                            SprintsResponse(r.calls[Len(r.calls)]))]
    /\ UNCHANGED <<Env, peer, runtime_config, config_file, issues>>

\* POST /search/jql is answered to a listing tool
ListResponds(i) ==
    /\ inv[i].pc = "list"
    /\ \E status \in {200} \cup FailStatuses :
          LET r == Answered(i, status)
          IN  inv' = [inv EXCEPT ![i] =
                        IF is_success(status)
                        THEN list_finish(r, SearchResponse(r.calls[Len(r.calls)]))
                        ELSE not_success(r, status)]
    /\ UNCHANGED <<Env, peer, runtime_config, config_file, issues>>

\* the descriptions and comment bodies the oldest stored item can have
Descriptions ==
    LET xs(n) == [k \in 1..n |-> "x"]
        text(t) == [type |-> "text", text |-> t]
        paragraph(items) == [type |-> "paragraph", content |-> items]
        doc(content) == [type |-> "doc", version |-> 1, content |-> content]
    IN  {NoDescription,
         [type |-> "str", text |-> <<"a","b">>],
         [type |-> "str", text |-> xs(PreviewCap)],
         [type |-> "str", text |-> xs(PreviewCap + 1)],
         doc(<<>>),
         doc(<<paragraph(<<text(<<"a">>), text(<<"b">>)>>), paragraph(<<text(<<"c">>)>>)>>),
         doc(<<[type |-> "heading", content |-> <<text(<<"h">>)>>],
               paragraph(<<text(<<"a">>)>>), paragraph(<<text(<<" ">>)>>)>>),
         doc(<<paragraph(<<text(xs(PreviewCap + 1))>>)>>)}

ToolsConfigCalls ==
    {ConfigArguments(p, s) : p \in Optional({<<"q">>}), s \in Optional({0, 7, -3})}

InitTools ==
    /\ PROJECT_KEYS \in {<<>>, <<P, Q>>}
    /\ DEFAULT_PROJECT = None
    /\ config_file = NoFile
    /\ runtime_config = load_config(Defaults, config_file)
    /\ peer = NoPeer
    /\ \E d \in Descriptions :
          issues = [ExistingIssues(2) EXCEPT ![1].description = d,
                                            ![1].comments = <<[body |-> d]>>]
    /\ inv = [i \in Slots |-> Idle]

NextTools ==
    \/ \E a \in RaceArguments : create_new_ticket_handler(1, a)
    \/ \E a \in RaceArguments : create_new_epic_handler(1, a)
    \/ SearchResponds(1)
    \/ CreateResponds(1)
    \/ \E a \in [ticket_key : TicketKeys,
                 transition_name : {None, <<"d","o","n","e">>, <<"D","O","N","E">>,
                                    <<"x">>}] :
          transition_ticket_handler(1, a)
    \/ \E a \in [ticket_key : TicketKeys] :
          get_ticket_details_handler(1, a)
    \/ \E a \in [ticket_key : {None, <<"P","-","1">>}, summary : {None, <<"b">>},
                 description : {None},
                 assignee : Optional({<<"M","e">>, <<"u">>, <<>>}),
                 status : {None, <<"d","o","n","e">>, <<"x">>}] :
          update_ticket_details_handler(1, a)
    \/ \E a \in [ticket_key : {None, <<"P","-","1">>}, summary : {None, <<"b">>},
                 description : {None},
                 assignee : Optional({<<"u">>, <<>>}),
                 status : {None, <<"d","o","n","e">>}] :
          call_tool_update_ticket_details(1, a)
    \/ \E a \in [ticket_key : TicketKeys, comment : {None, <<"c">>}] :
          add_ticket_comment_handler(1, a)
    \/ \E a \in [board_id : {0, 1, 3}, include_closed : BOOLEAN] :
          list_sprints_handler(1, a)
    \/ \E a \in [status : {"", "To Do"}, project : {None, P},
                 exclude_done : BOOLEAN] :
          get_assigned_tickets_handler(1, a)
    \/ \E a \in [status : {"", "Done"}, project : {None, Q}] :
          get_available_tickets_handler(1, a)
    \/ \E a \in [project : {None, P}] :
          get_available_epics_handler(1, a)
    \/ \E a \in [epic_key : {None, <<"P","-","1">>},
                 include_done : BOOLEAN] :
          get_epic_tickets_handler(1, a)
    \/ \E a \in [search_text : {None, <<"a">>}, include_done : BOOLEAN,
                 project : {None, Q}] :
          search_similar_tickets_handler(1, a)
    \/ TransitionsResponds(1)
    \/ ApplyResponds(1)
    \/ DetailsResponds(1)
    \/ DetailsTransitionsResponds(1)
    \/ MyselfResponds(1)
    \/ UpdateResponds(1)
    \/ CommentResponds(1)
    \/ BoardsResponds(1)
    \/ SprintsResponds(1)
    \/ ListResponds(1)
    \/ \E a \in ToolsConfigCalls : update_config_handler(a)

SpecTools == InitTools /\ [][NextTools]_vars

----------------------------------------------------------------------------
(* Properties of the creation workflows *)

CreateTools ==
    {"create_new_ticket", "create_new_epic", "create_new_ticket_advanced", "call_tool"}

TicketTools == {"create_new_ticket", "create_new_ticket_advanced", "call_tool"}

\* the invocation's similarity search was answered with a success status
SearchSucceeded(r) == r.responses # <<>> /\ is_success(r.responses[1])

\* the creation requests the invocation has posted
CreateCalls(r) == {k \in 1..Len(r.calls) : r.calls[k].kind = "create"}

\* C1: once validation has passed and the similarity search has returned
\* successfully, the creation call is issued, whatever number of candidates
\* the search returned.
C1_CreationAlwaysProceeds ==
    \A i \in Slots :
        SearchSucceeded(inv[i]) =>
            /\ Len(inv[i].calls) = 2
            /\ inv[i].calls[2].kind = "create"

C1_Witness ==
    \E i \in Slots :
        /\ inv[i].tool = "create_new_ticket"
        /\ SearchSucceeded(inv[i])
        /\ Len(inv[i].similar) >= 2
        /\ inv[i].pc = "create"

\* C2: a successful create invocation has posted exactly one similarity
\* search and then exactly one creation request, and no invocation posts a
\* creation request unless its own search came first and was answered.
C2_OneSearchThenOneCreate ==
    \A i \in Slots :
        /\ inv[i].pc = "done" =>
              /\ Len(inv[i].calls) = 2
              /\ inv[i].calls[1].kind = "search"
              /\ inv[i].calls[2].kind = "create"
              /\ inv[i].searched_at < inv[i].created_at
        /\ \A k \in CreateCalls(inv[i]) :
              /\ k = 2
              /\ inv[i].calls[1].kind = "search"
              /\ SearchSucceeded(inv[i])

C2_Witness ==
    \E i \in Slots : inv[i].tool = "create_new_epic" /\ inv[i].pc = "done"

\* C3: a non-success response to the search or to the creation call ends the
\* invocation with an error that carries that status code and the raw body,
\* and no request is posted after it: a failed search is followed by no
\* creation call.
C3_RemoteFailureAborts ==
    \A i \in Slots :
        \A k \in 1..Len(inv[i].responses) :
            ~is_success(inv[i].responses[k]) =>
                /\ inv[i].pc = "raised"
                /\ inv[i].error.kind = "Jira API error"
                /\ inv[i].error.status = inv[i].responses[k]
                /\ inv[i].error.body = ResponseText(inv[i].responses[k])
                /\ Len(inv[i].calls) = k
                /\ (k = 1 => CreateCalls(inv[i]) = {})

C3_Witness ==
    \E i \in Slots :
        /\ inv[i].responses = <<500>>
        /\ inv[i].pc = "raised"
        /\ inv[i].calls[1].kind = "search"

\* the default the tool falls back to when the request names no project
ConfiguredDefault(tool) ==
    CASE tool = "create_new_ticket" -> get_default_project
      [] tool = "create_new_ticket_advanced" -> DEFAULT_PROJECT
      [] OTHER -> None

\* C4: a create invocation whose summary is missing or empty, or that has no
\* explicit project, no epic_key and no configured default project, returns a
\* validation error and posts no request.
C4_ValidationBeforeCalls ==
    [][\A i \in Slots :
          (/\ inv[i].pc = "idle"
           /\ inv'[i].pc # "idle"
           /\ \/ inv'[i].arguments.summary = None
              \/ /\ inv'[i].arguments.project = None
                 /\ inv'[i].arguments.epic_key = None
                 /\ ConfiguredDefault(inv'[i].tool) = None)
          => /\ inv'[i].pc = "rejected"
             /\ inv'[i].error.kind # "none"
             /\ inv'[i].calls = <<>>]_vars

C4_Witness ==
    \E i \in Slots :
        /\ inv[i].tool = "create_new_ticket"
        /\ inv[i].arguments.summary # None
        /\ inv[i].arguments.epic_key = None
        /\ inv[i].pc = "rejected"
        /\ inv[i].error.kind = "No default project configured"
        /\ inv[i].calls = <<>>

\* the project key the request resolves to, by the tool's own rule
ResolvedProject(r) ==
    CASE r.tool = "create_new_ticket" ->
            IF r.arguments.epic_key # None THEN rsplit_head(r.arguments.epic_key)
            ELSE r.default_project
      [] r.tool = "create_new_ticket_advanced" ->
            IF r.arguments.project # None THEN r.arguments.project
            ELSE DEFAULT_PROJECT
      [] OTHER -> r.arguments.project

\* C5: whenever an invocation has posted a request, the project key it
\* resolved to is non-empty, and every creation payload carries a non-empty
\* project key.
C5_ProjectKeyNonEmpty ==
    \A i \in Slots :
        /\ inv[i].calls # <<>> => ResolvedProject(inv[i]) # None
        /\ \A k \in CreateCalls(inv[i]) : inv[i].calls[k].fields.project # None

C7_EpicPrefixBeforeDefault ==
    \A i \in Slots :
        (/\ inv[i].tool = "create_new_ticket"
         /\ inv[i].arguments.summary # None
         /\ inv[i].arguments.project = None
         /\ inv[i].arguments.epic_key # None) =>
            /\ inv[i].pc # "rejected"
            /\ \A k \in CreateCalls(inv[i]) :
                  /\ inv[i].calls[k].fields.project
                        = rsplit_head(inv[i].arguments.epic_key)
                  /\ inv[i].arguments.epic_key = <<"Q","-","1">>
                        => inv[i].calls[k].fields.project = Q

\* the clauses of a search request
Clauses(request) == {request.jql.parts[k] : k \in 1..Len(request.jql.parts)}

\* C8: the similarity search of a create invocation is scoped to the project
\* key its creation payload uses, excludes items whose status category is
\* Done, and asks for at most 5 results.
C8_SearchScopedToResolvedProject ==
    \A i \in Slots :
        inv[i].calls # <<>> =>
            /\ inv[i].calls[1].maxResults <= 5
            /\ \E c \in Clauses(inv[i].calls[1]) : c.kind = "notDone"
            /\ \A k \in CreateCalls(inv[i]) :
                  \E c \in Clauses(inv[i].calls[1]) :
                      /\ c.kind = "projectEq"
                      /\ c.val = inv[i].calls[k].fields.project

\* C9: for a search that returned n candidates the outcome carries a warning
\* iff n >= 1; the warning lists the first min(n, 3) candidates in result
\* order with key, summary and status, and states n as the count.
C9_WarningComposition ==
    \A i \in Slots :
        /\ inv[i].pc = "create" =>
              inv[i].similar = tickets_of(SearchResponse(inv[i].calls[1]))
        /\ Len(inv[i].calls) = 2 =>
              LET n == Len(inv[i].similar)
                  w == inv[i].warning
              IN  /\ (w # NoWarning) <=> (n >= 1)
                  /\ w.count = n
                  /\ Len(w.listed) = Min(n, 3)
                  /\ \A k \in 1..Len(w.listed) :
                        /\ w.listed[k].key = inv[i].similar[k].key
                        /\ w.listed[k].summary = inv[i].similar[k].summary
                        /\ w.listed[k].status = inv[i].similar[k].status

C9_Witness ==
    \E i \in Slots :
        /\ inv[i].pc = "done"
        /\ inv[i].warning.count = 4
        /\ Len(inv[i].warning.listed) = 3

\* both searches were answered before either item was created
Overlapped(i, j) ==
    /\ inv[i].pc = "done" /\ inv[j].pc = "done"
    /\ inv[i].searched_at < inv[j].created_at
    /\ inv[j].searched_at < inv[i].created_at

ListedKeys(r) == {r.warning.listed[k].key : k \in 1..Len(r.warning.listed)}

\* C10: two create invocations with the same summary whose searches are both
\* answered before either creation both proceed to create; the store then
\* holds two items with that summary and neither warning names the other
\* invocation's item.  Nothing stops the second creation.
C10_SearchCreateRaceUnguarded ==
    \A i, j \in Slots :
        (/\ i # j
         /\ inv[i].arguments.summary = inv[j].arguments.summary
         /\ SearchSucceeded(inv[i]) /\ SearchSucceeded(inv[j])) =>
            /\ CreateCalls(inv[i]) = {2} /\ CreateCalls(inv[j]) = {2}
            /\ Overlapped(i, j) =>
                  /\ inv[i].created_at # inv[j].created_at
                  /\ issues[inv[i].created_at].key = inv[i].result.key
                  /\ issues[inv[j].created_at].key = inv[j].result.key
                  /\ issues[inv[i].created_at].summary = inv[i].arguments.summary
                  /\ issues[inv[j].created_at].summary = inv[i].arguments.summary
                  /\ inv[j].result.key \notin ListedKeys(inv[i])
                  /\ inv[i].result.key \notin ListedKeys(inv[j])

C10_Witness ==
    /\ inv[1].tool = "create_new_ticket" /\ inv[2].tool = "create_new_ticket"
    /\ inv[1].arguments.summary = <<"a">> /\ inv[2].arguments.summary = <<"a">>
    /\ Overlapped(1, 2)
    /\ Len(issues) = 2
    /\ issues[1].summary = issues[2].summary
    /\ inv[1].warning = NoWarning /\ inv[2].warning = NoWarning

----------------------------------------------------------------------------
(* Properties of the configuration store *)

ConfigCalls ==
    {ConfigArguments(p, s) : p \in Optional(ConfigProjectArgs),
                             s \in Optional(SprintArgs)}

\* the call names a project key that handler() passes to set_default_project()
SetsProject(arguments) ==
    /\ "default_project" \in DOMAIN arguments
    /\ arguments["default_project"] # None
    /\ PROJECT_KEYS # <<>> => InList(upper(arguments["default_project"]), PROJECT_KEYS)

\* the call reaches set_default_sprint_id(): no project key was refused first
SetsSprint(arguments) ==
    /\ "default_sprint_id" \in DOMAIN arguments
    /\ "default_project" \in DOMAIN arguments /\ arguments["default_project"] # None
           => SetsProject(arguments)

C12_LastWriterWins ==
    [][\A a \in ConfigCalls :
          /\ update_config_handler(a) /\ (SetsProject(a) \/ SetsSprint(a)) =>
                \A key \in {"default_project", "default_sprint_id"} :
                    config_file'.content[key] = runtime_config'[key]
          /\ peer_update_config(a) /\ (SetsProject(a) \/ SetsSprint(a)) =>
                \A key \in {"default_project", "default_sprint_id"} :
                    config_file'.content[key] = peer'.runtime_config[key]]_vars

\* this process set the project Q, the second process then set the sprint 7:
\* the file holds the second process's project, and Q is lost from it
C12_Witness ==
    /\ PROJECT_KEYS # <<>>
    /\ runtime_config = [default_sprint_id |-> <<>>, default_project |-> Q]
    /\ peer.pc = "running"
    /\ peer.runtime_config = [default_sprint_id |-> str(7), default_project |-> P]
    /\ config_file = [exists |-> TRUE, form |-> "object",
                      content |-> peer.runtime_config]

\* C13: loading the configuration never fails: whatever config.json holds,
\* a starting process completes the load and has both settings in memory.
C13_LoadNeverFails ==
    /\ peer.pc # "crashed"
    /\ peer.pc = "running" =>
          DOMAIN peer.runtime_config = {"default_project", "default_sprint_id"}

\* C14: the configuration, in memory and in config.json, changes only in
\* steps that are update_config calls with arguments: no step of another
\* tool (creation, search, listing, update, transition, comment) changes
\* it, and update_config without arguments leaves it as it is.
C14_OnlyUpdateConfigWrites ==
    [][/\ runtime_config' # runtime_config \/ config_file' # config_file =>
             /\ inv' = inv /\ issues' = issues
             /\ \E a \in ToolsConfigCalls :
                   DOMAIN a # {} /\ update_config_handler(a)
       /\ update_config_handler(<<>>) =>
             UNCHANGED <<runtime_config, config_file>>]_vars

\* update_ticket_details has run to its end and nothing was configured
C14_Witness ==
    /\ inv[1].tool = "update_ticket_details" /\ inv[1].pc = "done"
    /\ Len(inv[1].calls) >= 4
    /\ runtime_config = Defaults /\ config_file = NoFile

----------------------------------------------------------------------------
(* Properties of the transition lookup and of the remote failures *)

\* transition_ticket() has received the list of transitions
LookupAnswered(r) ==
    /\ r.transition_name # None
    /\ \E k \in 1..Len(r.responses) :
          r.calls[k].kind = "list_transitions" /\ is_success(r.responses[k])

\* the transitions whose name equals the requested one up to case
Matches(r) ==
    {m \in 1..Len(r.transitions_data) :
        lower(r.transitions_data[m].name) = lower(r.transition_name)}

Applies(r) == {k \in 1..Len(r.calls) : r.calls[k].kind = "apply_transition"}

\* C15: when a listed transition has the requested name up to case, the
\* transition is applied, and the apply-transition request carries the id
\* of the first such transition of the list.
C15_FirstMatchIgnoringCase ==
    \A i \in Slots :
        LET r == inv[i]
        IN  LookupAnswered(r) /\ Matches(r) # {} =>
               /\ Applies(r) # {}
               /\ \A k \in Applies(r) : \A m \in Matches(r) :
                     (\A n \in Matches(r) : m <= n) =>
                        r.calls[k].id = r.transitions_data[m].id

\* DONE was asked for, done and Done are listed in this order: the id of
\* done is posted
C15_Witness ==
    /\ inv[1].transition_name = <<"D","O","N","E">>
    /\ Cardinality(Matches(inv[1])) = 2
    /\ \E k \in Applies(inv[1]) : inv[1].calls[k].id = 31

\* C16: when no listed transition has the requested name up to case, the
\* invocation ends with an error that lists the names of all the
\* transitions received, no apply-transition request is posted and the
\* remote items are left as they are.
C16_NotFoundListsAll ==
    [][\A i \in Slots :
          /\ inv[i].pc = "transitions"
          /\ Len(inv'[i].responses) = Len(inv[i].responses) + 1
          /\ is_success(inv'[i].responses[Len(inv'[i].responses)])
          /\ Matches(inv'[i]) = {}
          => /\ inv'[i].pc = "raised"
             /\ inv'[i].error = TransitionNotFound
             /\ inv'[i].available_transitions = names_of(inv'[i].transitions_data)
             /\ Applies(inv'[i]) = {}
             /\ issues' = issues]_vars

\* x was asked for where Go and Done are offered
C16_Witness ==
    /\ inv[1].pc = "raised" /\ inv[1].error = TransitionNotFound
    /\ inv[1].transition_name = <<"x">>
    /\ inv[1].available_transitions = <<<<"G","o">>, <<"D","o","n","e">>>>

\* the list-transitions request of fetch_ticket_details(): it follows the GET
\* of the item
DetailsTransitions(r, k) ==
    k > 1 /\ r.calls[k].kind = "list_transitions" /\ r.calls[k - 1].kind = "get_issue"

\* list_sprints looking for the boards of the configured projects
Discovery(r) == r.tool = "list_sprints" /\ r.arguments.board_id = 0

Failures(r) == {k \in 1..Len(r.responses) : ~is_success(r.responses[k])}

Swallowed(r, k) ==
    \/ r.calls[k].kind = "list_boards"
    \/ r.calls[k].kind = "list_sprints" /\ Discovery(r)
    \/ DetailsTransitions(r, k)

----------------------------------------------------------------------------
(* Properties of the description texts *)

\* the similar items of a finished search_similar_tickets, with the stored
\* item each was made from
Previews ==
    UNION {{[preview |-> inv[i].tickets[n].description_preview,
             source |-> desc_text_of(
                           issues[IssueAt(inv[i].tickets[n].key)].description, <<>>)] :
               n \in 1..Len(inv[i].tickets)} :
           i \in {j \in Slots : /\ inv[j].tool = "search_similar_tickets"
                                /\ inv[j].pc = "done"}}

\* C19: the description preview of a similar item is the source text itself
\* when that has at most 200 characters, and otherwise its first 200
\* characters followed by "...": 203 characters.
C19_PreviewTruncation ==
    \A p \in {q \in Previews : q.source.type = "str"} :
        IF Len(p.source.text) <= 200
        THEN p.preview = p.source
        ELSE /\ p.preview.type = "str"
             /\ Len(p.preview.text) = 203
             /\ \A k \in 1..200 : p.preview.text[k] = p.source.text[k]
             /\ \A k \in 201..203 : p.preview.text[k] = "."

\* the preview of a document whose one paragraph has 201 characters
C19_Witness ==
    /\ issues[1].description.type = "doc"
    /\ \E p \in Previews :
          /\ p.source.type = "str"
          /\ Len(p.source.text) = 201 /\ Len(p.preview.text) = 203

RECURSIVE Joined(_)
\* the texts of the paragraphs of a document with one newline between two
\* consecutive paragraphs; the other blocks add nothing
Joined(content) ==
    LET paragraphs == SelectSeq(content, LAMBDA b : b.type = "paragraph")
    IN  IF paragraphs = <<>> THEN <<>>
        ELSE IF Len(paragraphs) = 1 THEN paragraph_text(paragraphs[1].content)
        ELSE paragraph_text(paragraphs[1].content) \o <<"\n">>
             \o Joined(Tail(paragraphs))

\* C20: wherever a document is flattened (the description and the comment
\* bodies of the ticket details, the description preview of a similar
\* item), the result is the paragraph texts joined by one newline.
C20_ParagraphsJoinedByNewline ==
    /\ \A p \in Previews :
          LET d == issues[1].description
          IN  (d.type = "doc" /\ d.content # <<>> /\ Len(Joined(d.content)) <= 200
               /\ p.source = desc_text_of(d, <<>>)) =>
                  p.preview = [type |-> "str", text |-> Joined(d.content)]
    /\ \A i \in Slots :
          (inv[i].pc = "done" /\ inv[i].ticket.key = issues[1].key
           /\ issues[1].description.type = "doc"
           /\ issues[1].description.content # <<>>) =>
              /\ inv[i].ticket.description = Joined(issues[1].description.content)
              /\ \A k \in 1..Len(inv[i].ticket.comments) :
                    inv[i].ticket.comments[k] =
                       Joined(issues[1].comments[k].body.content)

----------------------------------------------------------------------------
(* Properties of the returned texts *)

\* the positions of the text of invocation r that hold this part
Parts(r, part) == {k \in 1..Len(r.text) : r.text[k].part = part}

\* C21: the text a successful create invocation returns holds the key of
\* the item the store has just added and the URL made of the host, /browse/
\* and that key; when the search returned candidates, the key of the first
\* of them (the only one, when there is one) is in the warning, which
\* stands before the created key.
C21_ResultHoldsKeyAndUrl ==
    \A i \in Slots :
        LET r == inv[i]
        IN  r.tool \in CreateTools /\ r.pc = "done" =>
               /\ \E c \in Parts(r, "created"), u \in Parts(r, "url") :
                     /\ r.text[c].val = issues[r.created_at].key
                     /\ r.text[u].val =
                           JIRA_HOST \o <<"/","b","r","o","w","s","e","/">>
                                     \o issues[r.created_at].key
                     /\ r.similar # <<>> =>
                           \E w \in Parts(r, "candidate") :
                               w < c /\ r.text[w].val = r.similar[1].key
               /\ Cardinality(Parts(r, "created")) = 1
               /\ \A w \in Parts(r, "candidate") : \A c \in Parts(r, "created") : w < c

\* one candidate was found and its key stands before the created key
C21_Witness ==
    /\ inv[1].tool = "create_new_ticket" /\ inv[1].pc = "done"
    /\ Len(inv[1].similar) = 1
    /\ Len(inv[1].text) = 5
    /\ inv[1].text[2].val = inv[1].similar[1].key
    /\ inv[1].text[3].val = inv[1].result.key

ListTools ==
    {"get_assigned_tickets", "get_available_tickets", "get_available_epics",
     "get_epic_tickets", "search_similar_tickets"}

\* the operation of invocation r has got a result of zero items: the search
\* answered with no item, or list_sprints gathered no sprint, from a board
\* without sprints or from boards that could not be listed
ZeroItems(r) ==
    /\ r.pc \in {"done", "raised"}
    /\ \/ r.tool \in ListTools /\ Failures(r) = {} /\ r.tickets = <<>>
       \/ r.tool = "list_sprints" /\ r.all_sprints = <<>>
          /\ (Discovery(r) \/ Failures(r) = {})

\* C22: every listing operation that got zero items returns a message that
\* says none were found: its text is not empty and no exception leaves it.
C22_NoneFoundMessage ==
    \A i \in Slots :
        ZeroItems(inv[i]) =>
            /\ inv[i].pc = "done"
            /\ inv[i].text # <<>>
            /\ inv[i].text[1].part \in
                  {"No {header.lower()} found.", "No open epics found.",
                   "No tickets found under epic ", "No similar tickets found for: ",
                   "No sprints found. Boards checked: "}
            /\ inv[i].text[1].part = "No {header.lower()} found." =>
                  inv[i].text[1].val # <<>>

\* board 3 has no sprint
C22_Witness ==
    /\ inv[1].tool = "list_sprints" /\ inv[1].arguments.board_id = 3
    /\ inv[1].pc = "done" /\ inv[1].responses = <<200>>
    /\ inv[1].text = <<[part |-> "No sprints found. Boards checked: ",
                        val |-> <<"3">>]>>

----------------------------------------------------------------------------
(* Properties of the creation payload and of the queries *)

\* invocation i posts its creation request in this step
PostsCreate(i) ==
    /\ Len(inv'[i].calls) = Len(inv[i].calls) + 1
    /\ inv'[i].calls[Len(inv'[i].calls)].kind = "create"

Queries(r) == {r.calls[k].jql : k \in {m \in 1..Len(r.calls) : r.calls[m].kind = "search"}}

\* C24, as stated: every query has its clauses and then an ordering clause
\* whose first sort key is most recently updated first.
C24_UpdatedFirst ==
    \A i \in Slots : \A jql \in Queries(inv[i]) :
        /\ jql.parts # <<>>
        /\ jql.order # <<>>
        /\ jql.order[1] = [field |-> "updated", dir |-> "DESC"]

\* C24, amended: every query has its clauses and then an ordering clause;
\* the ordering is most recently updated first, except in get_epic_tickets,
\* which orders by status ascending and, within a status, most recently
\* updated first.
C24_UpdatedFirstButEpicTickets ==
    \A i \in Slots : \A jql \in Queries(inv[i]) :
        /\ jql.parts # <<>>
        /\ jql.order =
              IF inv[i].tool = "get_epic_tickets"
              THEN <<[field |-> "status", dir |-> "ASC"],
                     [field |-> "updated", dir |-> "DESC"]>>
              ELSE <<[field |-> "updated", dir |-> "DESC"]>>

\* get_available_tickets has sent three clauses and its ordering
C24_Witness ==
    /\ inv[1].tool = "get_available_tickets"
    /\ PROJECT_KEYS # <<>>
    /\ Len(inv[1].calls) = 1
    /\ Len(inv[1].calls[1].jql.parts) = 3
    /\ inv[1].calls[1].jql.order = <<[field |-> "updated", dir |-> "DESC"]>>

\* C25: the project create_new_ticket reports in its result text is the
\* project key of the creation payload of the same invocation, also when
\* update_config changes default_project during the similarity search.
C25_ReportedProjectIsPayloadProject ==
    \A i \in Slots :
        inv[i].tool = "create_new_ticket" /\ inv[i].pc = "done" =>
            /\ inv[i].result.project = inv[i].calls[2].fields.project
            /\ \A k \in Parts(inv[i], "project") :
                  inv[i].text[k].val = issues[inv[i].created_at].project

----------------------------------------------------------------------------
(* Properties of update_ticket_details *)

\* the requests of this kind invocation r has posted
Calls(r, kind) == {k \in 1..Len(r.calls) : r.calls[k].kind = kind}

\* request k of invocation r was answered with a success status
Succeeded(r, k) == k <= Len(r.responses) /\ is_success(r.responses[k])

\* C26: update_ticket_details with fields and a status posts the field
\* update first; it lists the transitions only after the update succeeded
\* and applies one only after the list was answered.  When the transition
\* then fails (no such name, or a remote error), the invocation ends with
\* an error and the updated field stays as the update left it.
C26_FieldsThenTransition ==
    \A i \in Slots :
        LET r == inv[i]
        IN  (/\ r.tool = "update_ticket_details"
             /\ DOMAIN r.fields # {} /\ r.arguments.status # None) =>
               /\ \A t \in Calls(r, "list_transitions") \cup Calls(r, "apply_transition") :
                     \E u \in Calls(r, "update") :
                         u < t /\ Succeeded(r, u)
               /\ \A a \in Calls(r, "apply_transition") :
                     \E t \in Calls(r, "list_transitions") :
                         t < a /\ Succeeded(r, t)
               /\ \A u \in Calls(r, "update") :
                     (/\ Succeeded(r, u)
                      /\ \/ r.error = TransitionNotFound
                         \/ \E k \in Failures(r) :
                               /\ r.calls[k].kind \in
                                     {"list_transitions", "apply_transition"}
                               /\ ~DetailsTransitions(r, k)) =>
                        /\ r.pc = "raised"
                        /\ r.arguments.summary # None =>
                              issues[IssueAt(r.arguments.ticket_key)].summary
                                 = r.arguments.summary

\* the summary of P-1 was set to b, then no transition x was found: the
\* item has the new summary and its old status
C26_Witness ==
    /\ inv[1].tool = "update_ticket_details" /\ inv[1].pc = "raised"
    /\ inv[1].error = TransitionNotFound
    /\ inv[1].arguments.summary = <<"b">>
    /\ issues[1].summary = <<"b">> /\ issues[1].status = "Done"

UpdateTools == {"update_ticket_details", "call_tool_update_ticket_details"}

NothingToUpdate ==
    {"No fields to update and no status transition requested", "No fields to update"}

\* C27: update_ticket_details called with a ticket key but with no summary,
\* no description, no assignee and no status raises the exception that
\* says there is nothing to update without having sent any request; called
\* without a ticket key it returns "ticket_key is required", also without
\* having sent any request.
C27_NothingToUpdateAndNoCall ==
    \A i \in Slots :
        LET r == inv[i]
        IN  r.tool \in UpdateTools =>
              /\ (/\ r.arguments.ticket_key # None
                  /\ r.arguments.summary = None /\ r.arguments.description = None
                  /\ r.arguments.assignee = <<>> /\ r.arguments.status = None) =>
                     /\ r.pc = "raised"
                     /\ r.error.kind \in NothingToUpdate
                     /\ r.calls = <<>>
              /\ r.arguments.ticket_key = None =>
                     /\ r.pc = "rejected"
                     /\ r.error.kind = "ticket_key is required"
                     /\ r.calls = <<>>

\* the tools' update_ticket_details was called with a key only and has raised
C27_Witness ==
    /\ inv[1].tool = "update_ticket_details" /\ inv[1].pc = "raised"
    /\ inv[1].arguments =
          [ticket_key |-> <<"P","-","1">>, summary |-> None, description |-> None,
           assignee |-> <<>>, status |-> None]
    /\ inv[1].error.kind = "No fields to update and no status transition requested"
    /\ inv[1].calls = <<>>

----------------------------------------------------------------------------
(* Properties of update_config *)

\* the call names a project key that handler() refuses
Refused(arguments) ==
    /\ "default_project" \in DOMAIN arguments
    /\ arguments["default_project"] # None
    /\ PROJECT_KEYS # <<>>
    /\ ~InList(upper(arguments["default_project"]), PROJECT_KEYS)

IsError(reply) ==
    /\ Len(reply) = 1
    /\ reply[1].part = "Error: '{project_key}' is not a configured project."

\* C28: an update_config call whose default_project, upper-cased, is not
\* in the non-empty PROJECT_KEYS is answered by the error that names the
\* key, and it leaves the configuration in memory and config.json as they
\* were, also when the call carries a default_sprint_id.
C28_RefusedProjectChangesNothing ==
    /\ [](\A a \in ConfigCalls :
             Refused(a) =>
                /\ IsError(update_config_reply(runtime_config, a))
                /\ update_config_reply(runtime_config, a)[1].val
                      = upper(a["default_project"]))
    /\ [][\A a \in ConfigCalls :
             update_config_handler(a) /\ Refused(a) =>
                runtime_config' = runtime_config /\ config_file' = config_file]_vars

\* the sprint 7 is configured and saved, Z is not a configured project,
\* and the call that names Z together with the sprint 0 is refused
C28_Witness ==
    /\ PROJECT_KEYS = <<P, Q>>
    /\ runtime_config.default_sprint_id = str(7)
    /\ config_file = saved_file(runtime_config)
    /\ Refused(ConfigArguments(<<<<"Z">>>>, <<0>>))
    /\ IsError(update_config_reply(runtime_config, ConfigArguments(<<<<"Z">>>>, <<0>>)))

\* C29: an update_config call that sets the default sprint id v leaves
\* get_default_sprint_id() returning the decimal text of v when v is not 0
\* and the empty text when v is 0; the reply to the call with v = 0 holds
\* the change line "default_sprint_id: 0" all the same; and a creation
\* payload built while the default sprint id is empty holds no sprint field.
C29_SprintRoundTrip ==
    /\ [][\A a \in ToolsConfigCalls :
             (/\ update_config_handler(a)
              /\ "default_sprint_id" \in DOMAIN a /\ ~Refused(a)) =>
                LET v == a["default_sprint_id"]
                IN  /\ v # 0 => /\ get_default_sprint_id' = str(v)
                                /\ int(get_default_sprint_id') = v
                    /\ v = 0 => get_default_sprint_id' = <<>>]_vars
    /\ [](\A a \in ToolsConfigCalls :
             (/\ "default_sprint_id" \in DOMAIN a /\ ~Refused(a)
              /\ a["default_sprint_id"] = 0) =>
                LET reply == update_config_reply(runtime_config, a)
                IN  /\ reply[1].part = "Updated configuration:"
                    /\ reply[Len(reply)].part = "default_sprint_id: "
                    /\ reply[Len(reply)].val = <<"0">>)
    /\ [][\A i \in Slots :
             PostsCreate(i) /\ get_default_sprint_id = <<>> =>
                SPRINT_FIELD \notin DOMAIN inv'[i].calls[Len(inv'[i].calls)].fields]_vars

\* the only update_config calls so far set the sprint alone, the last of
\* them to 0, and create_new_ticket has posted a payload without a sprint
C29_Witness ==
    /\ PROJECT_KEYS # <<>>
    /\ runtime_config = Defaults /\ config_file = saved_file(Defaults)
    /\ inv[1].tool = "create_new_ticket" /\ inv[1].pc = "create"
    /\ SPRINT_FIELD \notin DOMAIN inv[1].calls[Len(inv[1].calls)].fields

----------------------------------------------------------------------------
(* Properties of list_sprints *)

\* the place of a state in the listing: active, future, closed, any other
StatePlace(state) ==
    LET named == <<"active", "future", "closed">>
    IN  IF \E k \in 1..3 : named[k] = state
        THEN CHOOSE k \in 1..3 : named[k] = state
        ELSE 4

\* C30: the sprints list_sprints returns hold every sprint id that was
\* gathered once, each with the entry that was gathered first for it; they
\* are ordered active, future, closed, then any other state, by ascending
\* id inside a state; and the count the reply states is the number of
\* distinct ids.
C30_UniqueSortedSprints ==
    \A i \in Slots :
        LET r == inv[i]
            all == r.all_sprints
            listed == r.unique_sprints
        IN  (r.tool = "list_sprints" /\ r.pc = "done" /\ all # <<>>) =>
              /\ \A k, m \in 1..Len(listed) : listed[k].id = listed[m].id => k = m
              /\ {all[k].id : k \in 1..Len(all)} = {listed[k].id : k \in 1..Len(listed)}
              /\ \A k \in 1..Len(listed) :
                    \E n \in 1..Len(all) :
                       /\ all[n] = listed[k]
                       /\ \A j \in 1..(n - 1) : all[j].id # listed[k].id
              /\ \A k, m \in 1..Len(listed) :
                    k < m =>
                       \/ StatePlace(listed[k].state) < StatePlace(listed[m].state)
                       \/ /\ StatePlace(listed[k].state) = StatePlace(listed[m].state)
                          /\ listed[k].id < listed[m].id
              /\ r.text[1].part = "Found"
              /\ r.text[1].val = str(Cardinality({all[k].id : k \in 1..Len(all)}))
              /\ Len(r.text) = 1 + Len(listed)

\* the boards of both projects were asked for their sprints, closed ones
\* included: sprint 7 is on two boards and sprint 8 was gathered twice
C30_Witness ==
    /\ inv[1].tool = "list_sprints" /\ inv[1].pc = "done"
    /\ inv[1].arguments.board_id = 0 /\ inv[1].arguments.include_closed
    /\ Len(inv[1].all_sprints) = 7
    /\ [k \in 1..Len(inv[1].unique_sprints) |-> inv[1].unique_sprints[k].id]
          = <<7, 8, 5, 3>>
    /\ inv[1].unique_sprints[1].board_id = 1

====
